---- MODULE Spec2Model ----
(***************************************************************************)
(* Extraction and recipe-resolution engine of the Rust item extractor      *)
(* (asset-ripper-manager.js), the parts of the API server that read its    *)
(* output and cache the image archive (api-server.js), and the update      *)
(* monitor (steamcmd-manager.js).                                          *)
(***************************************************************************)
EXTENDS Integers, Sequences, FiniteSets, TLC

VARIABLES
    prefabsDirExists,  \* fs.existsSync(prefabsPath) in extractAllItems
    prefabFiles,       \* the .prefab files under the prefabs directory
    jsonFiles,         \* per .json file, what JSON.parse gives for its text
    pc,                \* position in extractRustItems
    prefabItems,       \* extractAllItems: items collected from the prefabs
    jsonItems,         \* extractAllItems: what extractJsonItems returned
    blueprints,        \* the blueprint list returned by extractAllItems
    items,             \* the item list returned by extractAllItems (allItems)
    outputFile,        \* processed-data/rust_items.json
    summaryFile,       \* processed-data/extraction_summary.json
    status,            \* serverStatus.status of the API server
    assetRipperProcess,\* this.assetRipperProcess: none, running or killed
    thrown,            \* the call of extractRustItems that threw, or none
    outcome,           \* of extractRustItems: pending, returned or threw
    dirTree,           \* findPrefabFiles: the directory tree at its argument
    findPc,            \* findPrefabFiles: call or returned
    foundPaths,        \* findPrefabFiles: the list it returned
    publishedBuild,    \* the build id of the public branch that Steam reports
    versionFile,       \* game-data/version.txt: the stored build id, 0 if none
    gameBuild,         \* the build of the game files in game-data, 0 if none
    datasetBuild,      \* the build rust_items.json was extracted from
    extractionBuild,   \* the build of the game files at the last extractRustItems
    monitoring,        \* startContinuousMonitoring: initial check or interval set
    updates,           \* per call of performUpdateIfNeeded in progress, its position
    itemsData,         \* api-server.js: the item list the routes serve
    serverPc,          \* api-server.js: starting (before the initial load) or serving
    reloadPending,     \* api-server.js: a reload is scheduled and has not run
    imagesStats,       \* what getImagesDirectoryStats() returns now, 0 for null
    cachedZipPath,     \* api-server.js: cachedZipPath, 0 for null
    cachedZipStats,    \* api-server.js: cachedZipStats, 0 for null
    requests           \* per GET /api/images/download-all in progress, its position

inputs == <<prefabsDirExists, prefabFiles, jsonFiles>>
extracted == <<prefabItems, jsonItems, blueprints>>
disk == <<outputFile, summaryFile>>
run == <<assetRipperProcess, thrown, outcome>>
extraction == <<inputs, pc, extracted, items, status, run>>

tree == <<dirTree, findPc, foundPaths>>
monitor == <<publishedBuild, versionFile, gameBuild, datasetBuild, extractionBuild, monitoring, updates>>
server == <<itemsData, serverPc, reloadPending, imagesStats, cachedZipPath, cachedZipStats, requests>>

vars == <<inputs, pc, extracted, items, disk, status, run, tree, monitor, server>>

----------------------------------------------------------------------------
(* JavaScript values.  A value carries its type, so that a number, a       *)
(* string, null and undefined are all different values; an object is a     *)
(* function from its property names to values.                             *)

Null == [t |-> "null"]
Undefined == [t |-> "undefined"]
Num(n) == [t |-> "number", v |-> n]
\* the number NaN, which parseInt gives for a text that has no numeral
NaN == [t |-> "nan"]
Str(s) == [t |-> "string", v |-> s]
Bool(b) == [t |-> "boolean", v |-> b]
List(s) == [t |-> "array", v |-> s]

\* obj.f : undefined when the object has no such property
Get(obj, f) == IF f \in DOMAIN obj THEN obj[f] ELSE Undefined

\* obj.f = v
Assign(obj, f, v) ==
    [g \in DOMAIN obj \cup {f} |-> IF g = f THEN v ELSE obj[g]]

\* ToBoolean, as used by if (x), x && y and x || y; an object (which has no
\* type tag) and an array are true
Truthy(x) ==
    CASE "t" \notin DOMAIN x -> TRUE
      [] x.t = "null" -> FALSE
      [] x.t = "undefined" -> FALSE
      [] x.t = "number" -> x.v # 0
      [] x.t = "nan" -> FALSE
      [] x.t = "string" -> x.v # ""
      [] x.t = "boolean" -> x.v
      [] OTHER -> TRUE

\* a || b
Or(a, b) == IF Truthy(a) THEN a ELSE b

\* { ...b, ...a }: the operands of the spread exchanged
SpreadFirstWins(a, b) ==
    [f \in DOMAIN a \cup DOMAIN b |-> IF f \in DOMAIN a THEN a[f] ELSE b[f]]

\* { ...a, ...b }
Spread(a, b) ==
    [f \in DOMAIN a \cup DOMAIN b |-> IF f \in DOMAIN b THEN b[f] ELSE a[f]]

\* the sequences over S of length at most n
BSeq(S, n) == UNION {[1..k -> S] : k \in 0..n}

\* the UTF-16 code units of the strings that are sorted (the category names
\* and the strings String(x) gives) or read out of a prefab's text
CodeUnits ==
    ("Weapon" :> <<87, 101, 97, 112, 111, 110>>) @@
    ("Construction" :> <<67, 111, 110, 115, 116, 114, 117, 99, 116, 105, 111, 110>>) @@
    ("Items" :> <<73, 116, 101, 109, 115>>) @@
    ("Resources" :> <<82, 101, 115, 111, 117, 114, 99, 101, 115>>) @@
    ("Attire" :> <<65, 116, 116, 105, 114, 101>>) @@
    ("Tool" :> <<84, 111, 111, 108>>) @@
    ("Medical" :> <<77, 101, 100, 105, 99, 97, 108>>) @@
    ("Food" :> <<70, 111, 111, 100>>) @@
    ("Ammunition" :> <<65, 109, 109, 117, 110, 105, 116, 105, 111, 110>>) @@
    ("Traps" :> <<84, 114, 97, 112, 115>>) @@
    ("Misc" :> <<77, 105, 115, 99>>) @@
    ("Deployable" :> <<68, 101, 112, 108, 111, 121, 97, 98, 108, 101>>) @@
    ("Component" :> <<67, 111, 109, 112, 111, 110, 101, 110, 116>>) @@
    ("Vehicle" :> <<86, 101, 104, 105, 99, 108, 101>>) @@
    ("Electrical" :> <<69, 108, 101, 99, 116, 114, 105, 99, 97, 108>>) @@
    ("Unknown" :> <<85, 110, 107, 110, 111, 119, 110>>) @@
    ("null" :> <<110, 117, 108, 108>>) @@
    ("wood" :> <<119, 111, 111, 100>>) @@
    ("workbench" :> <<119, 111, 114, 107, 98, 101, 110, 99, 104>>) @@
    ("Wood" :> <<87, 111, 111, 100>>) @@
    ("Workbench" :> <<87, 111, 114, 107, 98, 101, 110, 99, 104>>) @@
    ("basicblueprintfragment" :> <<98, 97, 115, 105, 99, 98, 108, 117, 101, 112, 114, 105, 110, 116, 102, 114, 97, 103, 109, 101, 110, 116>>) @@
    ("Fragment" :> <<70, 114, 97, 103, 109, 101, 110, 116>>) @@
    (".prefab" :> <<46, 112, 114, 101, 102, 97, 98>>) @@
    ("a.prefab" :> <<97, 46, 112, 114, 101, 102, 97, 98>>) @@
    ("b.prefab.meta" :> <<98, 46, 112, 114, 101, 102, 97, 98, 46, 109, 101, 116, 97>>) @@
    ("sub.prefab" :> <<115, 117, 98, 46, 112, 114, 101, 102, 97, 98>>) @@
    ("advancedblueprintfragment" :> <<97, 100, 118, 97, 110, 99, 101, 100, 98, 108, 117, 101, 112, 114, 105, 110, 116, 102, 114, 97, 103, 109, 101, 110, 116>>) @@
    ("abc" :> <<97, 98, 99>>) @@
    ("NaN" :> <<78, 97, 78>>)

\* the decimal numeral of an integer, as code units
RECURSIVE Digits(_)
Digits(n) ==
    IF n < 0 THEN <<45>> \o Digits(-n)
    ELSE IF n < 10 THEN <<48 + n>>
    ELSE Digits(n \div 10) \o <<48 + (n % 10)>>

----------------------------------------------------------------------------
(* The category table of the constructor.                                  *)

categoryMap ==
    (0 :> "Weapon") @@ (1 :> "Construction") @@ (2 :> "Items") @@
    (3 :> "Resources") @@ (4 :> "Attire") @@ (5 :> "Tool") @@
    (6 :> "Medical") @@ (7 :> "Food") @@ (8 :> "Ammunition") @@
    (9 :> "Traps") @@ (10 :> "Misc") @@ (13 :> "Deployable") @@
    (14 :> "Component") @@ (16 :> "Vehicle") @@ (17 :> "Electrical")

\* the table read as a list of names and the code as a position in it
CategoryLookupByPosition(key) ==
    IF key.t = "number" /\ key.v \in 0..(Cardinality(DOMAIN categoryMap) - 1)
    THEN LET code == CHOOSE c \in DOMAIN categoryMap :
                        Cardinality({d \in DOMAIN categoryMap : d < c}) = key.v
         IN  Str(categoryMap[code])
    ELSE Undefined

\* this.categoryMap[key]: a number key names its entry; undefined and null
\* name no entry.
CategoryLookup(key) ==
    IF key.t = "number" /\ key.v \in DOMAIN categoryMap
    THEN Str(categoryMap[key.v])
    ELSE Undefined

----------------------------------------------------------------------------
(* Text.  A text is the sequence of its UTF-16 code units.                 *)

\* the string whose code units these are
FromUnits(units) == CHOOSE s \in DOMAIN CodeUnits : CodeUnits[s] = units

\* the white space a line can hold: the space and the tab
IsSpace(u) == u \in {32, 9}
IsDigit(u) == u \in 48..57

RECURSIVE TrimStart(_)
TrimStart(text) ==
    IF text # <<>> /\ IsSpace(Head(text)) THEN TrimStart(Tail(text)) ELSE text

RECURSIVE TrimEnd(_)
TrimEnd(text) ==
    IF text # <<>> /\ IsSpace(text[Len(text)])
    THEN TrimEnd(SubSeq(text, 1, Len(text) - 1))
    ELSE text

\* String.prototype.trim
trim(text) == TrimEnd(TrimStart(text))

\* the longest prefix of a text that consists of decimal digits
RECURSIVE LeadingDigits(_)
LeadingDigits(text) ==
    IF text # <<>> /\ IsDigit(Head(text))
    THEN <<Head(text)>> \o LeadingDigits(Tail(text))
    ELSE <<>>

\* the number a nonempty sequence of decimal digits denotes
RECURSIVE DigitsValue(_)
DigitsValue(digits) ==
    IF Len(digits) = 1 THEN digits[1] - 48
    ELSE 10 * DigitsValue(SubSeq(digits, 1, Len(digits) - 1))
         + (digits[Len(digits)] - 48)

\* parseInt(text): leading white space is skipped, a sign is read, then
\* decimal digits as far as they go, and what follows them is ignored;
\* NaN when there is no digit (the texts here have no 0x prefix)
parseInt(text) ==
    LET t == TrimStart(text)
        signed == t # <<>> /\ Head(t) \in {43, 45}
        digits == LeadingDigits(IF signed THEN Tail(t) ELSE t)
    IN  IF digits = <<>> THEN NaN
        ELSE IF signed /\ Head(t) = 45 THEN Num(0 - DigitsValue(digits))
        ELSE Num(DigitsValue(digits))

\* parseFloat(text), for the texts here, none of which has a fraction or
\* an exponent after its digits
parseFloat(text) == parseInt(text)

----------------------------------------------------------------------------
(* parsePrefabFile: the two records it builds.                             *)

\* results.push({ type: 'ItemDefinition', ... })
ItemDefinition(pathId, shortname, displayName, itemid, category, stackable, volume, sourceFile) ==
    [type |-> Str("ItemDefinition"),
     pathId |-> pathId,
     shortname |-> shortname,
     displayName |-> displayName,
     itemid |-> itemid,
     category |-> category,
     categoryName |-> IF category # Null
                      THEN Or(CategoryLookup(category), Str("Unknown"))
                      ELSE Null,
     stackable |-> stackable,
     volume |-> volume,
     ingredients |-> List(<<>>),
     craftTime |-> Null,
     amountToCreate |-> Null,
     workbenchLevelRequired |-> Null,
     sourceFile |-> sourceFile]

\* results.push({ type: 'ItemBlueprint', ... })
ItemBlueprint(shortname, displayName, itemid, ingredients, time, amountToCreate, workbenchLevelRequired, sourceFile) ==
    [type |-> Str("ItemBlueprint"),
     pathId |-> Null,
     shortname |-> shortname,
     displayName |-> displayName,
     itemid |-> itemid,
     category |-> Null,
     stackable |-> Null,
     volume |-> Null,
     ingredients |-> List(ingredients),
     craftTime |-> time,
     amountToCreate |-> amountToCreate,
     workbenchLevelRequired |-> workbenchLevelRequired,
     sourceFile |-> sourceFile]

\* ingredients.push({ amount: ..., itemDef: { m_PathID: ... } })
Ingredient(amount, fileID) ==
    [amount |-> amount, itemDef |-> [m_PathID |-> fileID]]

----------------------------------------------------------------------------
(* parsePrefabFile.  The text of a prefab is the sequence of its lines; a  *)
(* line "key: value" is its key and the text of its value.  The lines      *)
(* "displayName:" and "ingredients:" carry no value.  The line             *)
(* "--- !u!114 &N" has the key "!u!114" and the value N.  The line         *)
(* "itemDef: {fileID: N, ...}" has the key "itemDef" and the value N, and  *)
(* the empty value when the braces hold no fileID.  Every other line       *)
(* carries its value on the line, so that the \s* of a pattern ends on the *)
(* line of its key.                                                        *)

Line(key, value) == [key |-> key, value |-> value]

\* the least index of a nonempty set of indices
First(S) == CHOOSE i \in S : \A j \in S : i <= j

\* the lines of the text that have the key and come after line `after`
LinesWith(content, key, after) ==
    {i \in (after + 1)..Len(content) : content[i].key = key}

\* the result of String.prototype.match: null, or the match with its group
NoMatch == [matched |-> FALSE]
MatchOf(group) == [matched |-> TRUE, group |-> group]

\* content.match(/key:\s*([^\r\n]+)/): the first line with the key
Match(content, key) ==
    LET hits == LinesWith(content, key, 0)
    IN  IF hits = {} THEN NoMatch ELSE MatchOf(content[First(hits)].value)

\* the display name falling back to the shortname when there is no token
MatchDisplayNameOrShortname(content) ==
    LET names == LinesWith(content, "displayName", 0)
        tokens == IF names = {} THEN {}
                  ELSE LinesWith(content, "token", First(names))
    IN  IF tokens = {} THEN Match(content, "shortname")
        ELSE MatchOf(content[First(tokens)].value)

\* content.match(/displayName:[\s\S]*?token:\s*([^\r\n]+)/): the first
\* token line after the first displayName line
MatchDisplayName(content) ==
    LET names == LinesWith(content, "displayName", 0)
        tokens == IF names = {} THEN {}
                  ELSE LinesWith(content, "token", First(names))
    IN  IF tokens = {} THEN NoMatch ELSE MatchOf(content[First(tokens)].value)

\* content.match(/!u!114 &(\d+)/): the first such line with a digit after
\* the ampersand, and the digits
MatchPathID(content) ==
    LET hits == {i \in LinesWith(content, "!u!114", 0) :
                    LeadingDigits(content[i].value) # <<>>}
    IN  IF hits = {} THEN NoMatch
        ELSE MatchOf(LeadingDigits(content[First(hits)].value))

\* m ? parseInt(m[1].trim()) : null
IntOrNull(m) == IF m.matched THEN parseInt(trim(m.group)) ELSE Null

\* m ? m[1].trim() : path.basename(filePath, '.prefab')
TextOrBasename(m, name) ==
    IF m.matched THEN Str(FromUnits(trim(m.group))) ELSE Str(name)

\* the special handling applied to one of the two shortnames only
IsFragmentBasicOnly(shortname) == shortname = Str("basicblueprintfragment")

\* the two shortnames whose display name and category are fixed
IsFragment(shortname) ==
    shortname \in {Str("basicblueprintfragment"), Str("advancedblueprintfragment")}

\* the loop over content.match(/itemDef:\s*{[^}]+}/g): a block without
\* fileID is skipped; the amount is looked for after the first place at
\* which the block's text occurs in the content, and a block with no amount
\* after that place is skipped
ParseIngredients(content) ==
    LET blocks == SelectSeq([i \in 1..Len(content) |-> i],
                            LAMBDA i : content[i].key = "itemDef")
        IndexOf(i) == First({j \in LinesWith(content, "itemDef", 0) :
                                content[j].value = content[i].value})
        Amounts(i) == LinesWith(content, "amount", IndexOf(i))
        Pushed(i) == content[i].value # <<>> /\ Amounts(i) # {}
        pushed == SelectSeq(blocks, Pushed)
    IN  [k \in 1..Len(pushed) |->
            Ingredient(parseInt(trim(content[First(Amounts(pushed[k]))].value)),
                       parseInt(trim(content[pushed[k]].value)))]

\* if (itemidMatch && shortnameMatch && displayNameMatch)
ItemFieldsPresent(itemidMatch, shortnameMatch, displayNameMatch) ==
    itemidMatch.matched /\ shortnameMatch.matched /\ displayNameMatch.matched

\* the if that guards the recipe record, nested in the item's
RecipeFieldsPresentWithItem(content) ==
    /\ Match(content, "ingredients").matched
    /\ Match(content, "time").matched
    /\ Match(content, "amountToCreate").matched
    /\ Match(content, "itemid").matched

\* if (ingredientsMatch && timeMatch && amountToCreateMatch)
RecipeFieldsPresent(content) ==
    /\ Match(content, "ingredients").matched
    /\ Match(content, "time").matched
    /\ Match(content, "amountToCreate").matched

\* the item record of the first if, as a list of no or one record
ParseItemDefinition(content, name) ==
    LET itemidMatch == Match(content, "itemid")
        shortnameMatch == Match(content, "shortname")
        displayNameMatch == MatchDisplayName(content)
    IN  IF ~ItemFieldsPresent(itemidMatch, shortnameMatch, displayNameMatch)
        THEN <<>>
        ELSE LET shortname == Str(FromUnits(trim(shortnameMatch.group)))
                 displayName ==
                     IF shortname = Str("basicblueprintfragment")
                     THEN Str("Basic Blueprint Fragment")
                     ELSE IF shortname = Str("advancedblueprintfragment")
                     THEN Str("Advanced Blueprint Fragment")
                     ELSE Str(FromUnits(trim(displayNameMatch.group)))
                 category == IF IsFragment(shortname) THEN Num(14)
                             ELSE IntOrNull(Match(content, "category"))
             IN  <<ItemDefinition(
                     IntOrNull(MatchPathID(content)),
                     shortname, displayName,
                     parseInt(trim(itemidMatch.group)),
                     category,
                     IntOrNull(Match(content, "stackable")),
                     IntOrNull(Match(content, "volume")),
                     Str(name \o ".prefab"))>>

\* the recipe record of the second if, as a list of no or one record
ParseItemBlueprint(content, name) ==
    IF ~RecipeFieldsPresent(content) THEN <<>>
    ELSE <<ItemBlueprint(
             TextOrBasename(Match(content, "shortname"), name),
             TextOrBasename(MatchDisplayName(content), name),
             IntOrNull(Match(content, "itemid")),
             ParseIngredients(content),
             parseFloat(trim(Match(content, "time").group)),
             parseInt(trim(Match(content, "amountToCreate").group)),
             IntOrNull(Match(content, "workbenchLevelRequired")),
             Str(name \o ".prefab"))>>

\* parsePrefabFile(content, filePath) for the file name.prefab: the records
\* pushed, the empty list standing for null
parsePrefabFile(content, name) ==
    ParseItemDefinition(content, name) \o ParseItemBlueprint(content, name)

----------------------------------------------------------------------------
(* extractJsonItems                                                        *)

\* if (itemData.itemid && itemData.shortname && itemData.Name)
JsonAccepted(itemData) ==
    /\ Truthy(Get(itemData, "itemid"))
    /\ Truthy(Get(itemData, "shortname"))
    /\ Truthy(Get(itemData, "Name"))

\* const item = { itemid: itemData.itemid, ... , source: 'json' }
JsonItem(itemData) ==
    [itemid |-> Get(itemData, "itemid"),
     shortname |-> Get(itemData, "shortname"),
     displayName |-> Get(itemData, "Name"),
     description |-> Or(Get(itemData, "Description"), Str("")),
     category |-> Or(CategoryLookup(Get(itemData, "Category")), Str("Unknown")),
     categoryId |-> Get(itemData, "Category"),
     stackable |-> Or(Get(itemData, "stackable"), Num(1)),
     volume |-> Or(Get(itemData, "volume"), Num(0)),
     maxDraggable |-> Or(Get(itemData, "maxDraggable"), Num(0)),
     itemType |-> Or(Get(itemData, "ItemType"), Str("Generic")),
     amountType |-> Or(Get(itemData, "AmountType"), Str("Count")),
     quickDespawn |-> Or(Get(itemData, "quickDespawn"), Bool(FALSE)),
     rarity |-> Or(Get(itemData, "rarity"), Str("None")),
     condition |-> Or(Get(itemData, "condition"), Null),
     parent |-> Or(Get(itemData, "Parent"), Num(0)),
     isWearable |-> Or(Get(itemData, "isWearable"), Bool(FALSE)),
     isHoldable |-> Or(Get(itemData, "isHoldable"), Bool(FALSE)),
     isUsable |-> Or(Get(itemData, "isUsable"), Bool(FALSE)),
     hasSkins |-> Or(Get(itemData, "HasSkins"), Bool(FALSE)),
     ingredients |-> List(<<>>),
     craftTime |-> Num(0),
     amountToCreate |-> Num(1),
     workbenchLevel |-> Num(0),
     source |-> Str("json")]

\* a .json file for which readFileSync or JSON.parse throws, or whose text
\* is null, so that reading itemData.itemid throws
Throws == [t |-> "throws"]

\* the loop over the .json files: one item per accepted file, in file
\* order; a file that throws is caught and pushes nothing
extractJsonItems(files) ==
    LET Pushes(file) == file # Throws /\ JsonAccepted(file)
        kept == SelectSeq(files, Pushes)
    IN  [i \in 1..Len(kept) |-> JsonItem(kept[i])]

----------------------------------------------------------------------------
(* extractAllItems: collecting the prefab records and the merge            *)

\* a .prefab file: its name without the extension, whether readFileSync
\* returns its text or throws, and its text
File(name, content) == [name |-> name, readable |-> TRUE, content |-> content]
Unreadable(name) == [name |-> name, readable |-> FALSE, content |-> <<>>]

\* the loop stopped by the first file that cannot be read
ItemInfosUntilError(files) ==
    LET failing == {i \in 1..Len(files) : ~files[i].readable}
        n == IF failing = {} THEN Len(files) ELSE First(failing) - 1
    IN  [i \in 1..n |-> parsePrefabFile(files[i].content, files[i].name)]

\* the body of the loop over prefabFiles, per file: what parsePrefabFile
\* returns for its text, and nothing when reading it throws
ItemInfos(files) ==
    [i \in 1..Len(files) |->
        IF files[i].readable
        THEN parsePrefabFile(files[i].content, files[i].name)
        ELSE <<>>]

\* the records of every file, in file order (parsePrefabFile returns null
\* or a list; a null result is the empty sequence here)
RECURSIVE Flatten(_)
Flatten(files) ==
    IF files = <<>> THEN <<>> ELSE Head(files) \o Flatten(Tail(files))

IsType(rec, type) == Get(rec, "type") = Str(type)
IsItemDefinition(rec) == IsType(rec, "ItemDefinition")
IsItemBlueprint(rec) == IsType(rec, "ItemBlueprint")

\* if (itemInfo.type === 'ItemDefinition') items.push(itemInfo)
CollectItems(files) == SelectSeq(Flatten(ItemInfos(files)), IsItemDefinition)

\* else if (itemInfo.type === 'ItemBlueprint') blueprints.push(itemInfo)
CollectBlueprints(files) == SelectSeq(Flatten(ItemInfos(files)), IsItemBlueprint)

\* the greatest index of a nonempty set of indices
Last(S) == CHOOSE i \in S : \A j \in S : j <= i

\* new Map(list.map(e => [e[key], e])).get(k): a later entry with the same
\* key replaces an earlier one; undefined when no entry has the key
MapGet(list, key, k) ==
    LET hits == {i \in 1..Len(list) : Get(list[i], key) = k}
    IN  IF hits = {} THEN Undefined ELSE list[Last(hits)]

\* const updatedItems = items.map(item => ...)
UpdatedItems(its, jsons) ==
    [i \in 1..Len(its) |->
        LET jsonItem == MapGet(jsons, "itemid", its[i].itemid)
        IN  IF Truthy(jsonItem) THEN Spread(its[i], jsonItem) ELSE its[i]]

\* the filter left out: every JSON item is appended
AllJsonItems(updated, jsons) == jsons

\* const newJsonItems = jsonItems.filter(item => !existingItemIds.has(...))
NewJsonItems(updated, jsons) ==
    LET existingItemIds == {updated[i].itemid : i \in 1..Len(updated)}
        IsNew(item) == item.itemid \notin existingItemIds
    IN  SelectSeq(jsons, IsNew)

\* const allItems = [...updatedItems, ...newJsonItems]
MergeItems(its, jsons) ==
    LET updated == UpdatedItems(its, jsons)
    IN  updated \o NewJsonItems(updated, jsons)

----------------------------------------------------------------------------
(* matchItemsWithBlueprints                                                *)

\* itemPathIDMap.get(pathID): only an item whose pathId is truthy was set,
\* and a later item with the same pathId replaced an earlier one
ItemPathIDMapGet(its, pathID) ==
    LET hits == {i \in 1..Len(its) :
                    /\ Truthy(Get(its[i], "pathId"))
                    /\ Get(its[i], "pathId") = pathID}
    IN  IF hits = {} THEN Undefined ELSE its[Last(hits)]

\* blueprintMap.get(shortname)
BlueprintMapGet(bps, shortname) == MapGet(bps, "shortname", shortname)

\* the body of the loop over matchingBlueprint.ingredients
ResolveIngredient(ingredient, its) ==
    LET ingredientItem == ItemPathIDMapGet(its, ingredient.itemDef.m_PathID)
    IN  IF Truthy(ingredientItem)
        THEN [amount |-> ingredient.amount,
              itemDef |-> [m_PathID |-> ingredient.itemDef.m_PathID,
                           shortname |-> Get(ingredientItem, "shortname"),
                           displayName |-> Get(ingredientItem, "displayName")]]
        ELSE ingredient

\* the else branch left out: an ingredient that is not resolved is dropped
ResolvedIngredientsDroppingMisses(blueprint, its) ==
    LET IsHit(ingredient) ==
            Truthy(ItemPathIDMapGet(its, ingredient.itemDef.m_PathID))
        hits == SelectSeq(blueprint.ingredients.v, IsHit)
    IN  List([k \in 1..Len(hits) |-> ResolveIngredient(hits[k], its)])

\* const resolvedIngredients = []; for (const ingredient of ...) { ... }
ResolvedIngredients(blueprint, its) ==
    LET ingredients == blueprint.ingredients.v
    IN  List([k \in 1..Len(ingredients) |->
                ResolveIngredient(ingredients[k], its)])

\* the four assignments to the item in either branch
SetCrafting(item, ingredients, craftTime, amountToCreate, workbenchLevelRequired) ==
    Assign(Assign(Assign(Assign(item,
        "ingredients", ingredients),
        "craftTime", craftTime),
        "amountToCreate", amountToCreate),
        "workbenchLevelRequired", workbenchLevelRequired)

\* the resolved ingredients pushed onto the item's own list instead of
\* replacing it
MatchItemAppending(item, its, bps) ==
    LET matchingBlueprint == BlueprintMapGet(bps, Get(item, "shortname"))
    IN  IF Truthy(matchingBlueprint)
        THEN SetCrafting(item,
                         List(item.ingredients.v
                              \o ResolvedIngredients(matchingBlueprint, its).v),
                         matchingBlueprint.craftTime,
                         matchingBlueprint.amountToCreate,
                         matchingBlueprint.workbenchLevelRequired)
        ELSE SetCrafting(item, List(<<>>), Null, Null, Null)

\* the body of the loop over items
MatchItem(item, its, bps) ==
    LET matchingBlueprint == BlueprintMapGet(bps, Get(item, "shortname"))
    IN  IF Truthy(matchingBlueprint)
        THEN SetCrafting(item,
                         ResolvedIngredients(matchingBlueprint, its),
                         matchingBlueprint.craftTime,
                         matchingBlueprint.amountToCreate,
                         matchingBlueprint.workbenchLevelRequired)
        ELSE SetCrafting(item, List(<<>>), Null, Null, Null)

\* the items are updated in place and returned in their order; the fields
\* the lookups read (pathId, shortname, displayName) are not among those
\* the loop assigns
matchItemsWithBlueprints(its, bps) ==
    [i \in 1..Len(its) |-> MatchItem(its[i], its, bps)]

----------------------------------------------------------------------------
(* saveToFile                                                              *)

\* JSON.stringify of an object: a property whose value is undefined is
\* left out, and NaN is written as null
RECURSIVE StringifyObject(_)
StringifyObject(obj) ==
    IF "t" \notin DOMAIN obj
    THEN [f \in {g \in DOMAIN obj : obj[g] # Undefined} |->
             StringifyObject(obj[f])]
    ELSE IF obj = NaN THEN Null
    ELSE IF obj.t = "array"
    THEN List([i \in 1..Len(obj.v) |-> StringifyObject(obj.v[i])])
    ELSE obj

\* JSON.stringify(items, null, 2), as the array it parses back to
Stringify(its) == List([i \in 1..Len(its) |-> StringifyObject(its[i])])

\* String(x), which the default comparator of sort() compares by
ToStringUnits(x) ==
    CASE x.t = "number" -> Digits(x.v)
      [] x.t = "string" -> CodeUnits[x.v]
      [] x.t = "null" -> CodeUnits["null"]
      [] x.t = "nan" -> CodeUnits["NaN"]

\* a < b for strings: by code units, a proper prefix first
RECURSIVE UnitsLess(_, _)
UnitsLess(a, b) ==
    IF b = <<>> THEN FALSE
    ELSE IF a = <<>> THEN TRUE
    ELSE IF Head(a) # Head(b) THEN Head(a) < Head(b)
    ELSE UnitsLess(Tail(a), Tail(b))

\* [...new Set(list)]: the distinct values in the order of their first
\* occurrence
RECURSIVE Distinct(_)
Distinct(list) ==
    IF list = <<>> THEN <<>>
    ELSE LET front == Distinct(SubSeq(list, 1, Len(list) - 1))
             last == list[Len(list)]
         IN  IF \E i \in 1..Len(front) : front[i] = last
             THEN front
             ELSE Append(front, last)

\* list.sort() with no comparator: ascending by String(x), stable
RECURSIVE DefaultSort(_)
DefaultSort(list) ==
    IF list = <<>> THEN <<>>
    ELSE LET front == DefaultSort(SubSeq(list, 1, Len(list) - 1))
             last == list[Len(list)]
             before == {i \in 1..Len(front) :
                          ~UnitsLess(ToStringUnits(last), ToStringUnits(front[i]))}
             n == Cardinality(before)
         IN  SubSeq(front, 1, n) \o <<last>> \o SubSeq(front, n + 1, Len(front))

\* const summary = { totalItems: ..., categories: ... }
Summary(its) ==
    LET WithIngredients(item) == Len(item.ingredients.v) > 0
        WithoutIngredients(item) == Len(item.ingredients.v) = 0
    IN  [totalItems |-> Num(Len(its)),
         itemsWithBlueprints |-> Num(Len(SelectSeq(its, WithIngredients))),
         itemsWithoutBlueprints |-> Num(Len(SelectSeq(its, WithoutIngredients))),
         categories |-> List(DefaultSort(Distinct(
                            [i \in 1..Len(its) |-> Get(its[i], "category")])))]

----------------------------------------------------------------------------
(* findPrefabFiles.  A directory is the list of its entries in the order   *)
(* readdirSync returns them; an entry is a file or a directory with its    *)
(* own entries.  A path is the list of the names below the root.           *)

FileEntry(name) == [name |-> name, dir |-> FALSE, entries |-> <<>>]
DirEntry(name, entries) == [name |-> name, dir |-> TRUE, entries |-> entries]

\* file.includes(suffix) in the place of file.endsWith(suffix)
includes(name, suffix) ==
    LET n == CodeUnits[name]
        x == CodeUnits[suffix]
    IN  \E i \in 1..Len(n) :
            i + Len(x) - 1 <= Len(n) /\ SubSeq(n, i, i + Len(x) - 1) = x

\* file.endsWith(suffix)
endsWith(name, suffix) ==
    LET n == CodeUnits[name]
        x == CodeUnits[suffix]
    IN  /\ Len(n) >= Len(x)
        /\ SubSeq(n, Len(n) - Len(x) + 1, Len(n)) = x

\* the loop over readdirSync(dir): a directory is searched in its turn and
\* what it holds is pushed, any other entry is pushed if its name ends
\* with .prefab
RECURSIVE FindIn(_, _)
FindIn(files, dir) ==
    IF files = <<>> THEN <<>>
    ELSE LET file == Head(files)
             filePath == dir \o <<file.name>>
         IN  (IF file.dir THEN FindIn(file.entries, filePath)
              ELSE IF endsWith(file.name, ".prefab") THEN <<filePath>>
              ELSE <<>>)
             \o FindIn(Tail(files), dir)

\* findPrefabFiles(dir): the empty list when dir does not exist
findPrefabFiles(dir) ==
    IF ~dir.exists THEN <<>> ELSE FindIn(dir.entries, <<>>)

----------------------------------------------------------------------------
(* GET /api/items of the API server                                        *)

\* filteredItems.filter(item => item.category === parseInt(category)), for
\* a query string that is the decimal numeral of n
FilterByCategory(filteredItems, n) ==
    LET Matches(item) == Get(item, "category") = Num(n)
    IN  SelectSeq(filteredItems, Matches)

----------------------------------------------------------------------------
(* Bounds and the inputs the runs are checked on.                          *)

MaxPrefabFiles == 2
MaxCategoryFiles == 1
MaxJsonFiles == 2
MaxIngredients == 2
MaxBlockLines == 4
MaxDepth == 2
MaxBuild == 2
MaxUpdates == 2
MaxImageStats == 2
MaxRequests == 2

\* the display-name token of the prefab that declares a shortname
TokenOf(shortname) == IF shortname = "wood" THEN "Wood" ELSE "Workbench"

\* the lines that name a prefab: shortname, and displayName with its token
NameLines(shortname) ==
    <<Line("shortname", CodeUnits[shortname]),
      Line("displayName", <<>>),
      Line("token", CodeUnits[TokenOf(shortname)])>>

\* the lines of an item definition: itemid 100 is wood, 150 is the
\* workbench; null stands for a line the text does not have
ItemLines(itemid, pathId, category) ==
    (IF pathId = Null THEN <<>> ELSE <<Line("!u!114", Digits(pathId.v))>>)
    \o <<Line("itemid", Digits(itemid))>>
    \o NameLines(IF itemid = 100 THEN "wood" ELSE "workbench")
    \o (IF category = Null THEN <<>> ELSE <<Line("category", Digits(category.v))>>)
    \o <<Line("stackable", Digits(1000)), Line("volume", Digits(10))>>

\* the lines of a recipe: its header fields, then per ingredient the
\* itemDef block and the amount
RECURSIVE IngredientLines(_)
IngredientLines(ingredients) ==
    IF ingredients = <<>> THEN <<>>
    ELSE <<Line("itemDef", Digits(Head(ingredients).itemDef.m_PathID.v)),
           Line("amount", Digits(Head(ingredients).amount.v))>>
         \o IngredientLines(Tail(ingredients))

RecipeLines(shortname, ingredients) ==
    <<Line("ingredients", <<>>)>>
    \o IngredientLines(ingredients)
    \o <<Line("time", Digits(30)), Line("amountToCreate", Digits(1))>>
    \o (IF shortname = "wood" THEN <<>>
        ELSE <<Line("workbenchLevelRequired", Digits(1))>>)

\* an item prefab
PrefabItem(itemid, pathId, category) ==
    File((IF itemid = 100 THEN "wood" ELSE "workbench") \o ".item",
         ItemLines(itemid, pathId, category))

\* a recipe prefab for a shortname
PrefabBlueprint(shortname, ingredients) ==
    File(shortname, NameLines(shortname) \o RecipeLines(shortname, ingredients))

\* a prefab that holds an item and its recipe
PrefabItemWithBlueprint(itemid, pathId, category, ingredients) ==
    File(IF itemid = 100 THEN "wood" ELSE "workbench",
         ItemLines(itemid, pathId, category)
         \o RecipeLines(IF itemid = 100 THEN "wood" ELSE "workbench", ingredients))

\* 2 x pathId 55, and 1 x file 0
IngredientChoices == {Ingredient(Num(2), Num(55)), Ingredient(Num(1), Num(0))}

\* the prefabs of the merge: one with no record, items, a recipe, and an
\* item together with its recipe
MergePrefabResults ==
    {File("empty", <<>>),
     PrefabItem(100, Num(55), Num(3)),
     PrefabItem(100, Null, Null),
     PrefabItem(150, Num(55), Num(10)),
     PrefabBlueprint("workbench", <<Ingredient(Num(2), Num(55))>>),
     PrefabItemWithBlueprint(150, Num(77), Null, <<Ingredient(Num(2), Num(55))>>)}

\* the objects the .json files parse to: with and without a volume, one
\* whose shortname differs from the prefab's of the same itemid, one for an
\* item no prefab declares, one without the Name key
JsonData(itemid, shortname) ==
    [itemid |-> Num(itemid), shortname |-> Str(shortname), Name |-> Str("Json Name"),
     Category |-> Num(14)]

MergeJsonFiles ==
    {JsonData(100, "wood"),
     JsonData(100, "wood.planks") @@ [volume |-> Num(5)],
     JsonData(150, "workbench") @@ [volume |-> Num(5), stackable |-> Num(20)],
     JsonData(200, "metal.ore"),
     [itemid |-> Num(200), shortname |-> Str("metal.ore")]}

ResolvePrefabResults ==
    {PrefabItem(100, p, Num(3)) : p \in {Num(55), Num(0)}}
    \cup {PrefabItem(150, p, Num(10)) : p \in {Num(55), Null}}
    \cup {PrefabBlueprint("workbench", ings) :
            ings \in BSeq(IngredientChoices, MaxIngredients)}
    \cup {PrefabBlueprint("wood", <<Ingredient(Num(2), Num(55))>>)}

ResolveJsonFiles == {JsonData(150, "workbench")}

\* the fields that the two ifs of parsePrefabFile ask for
ItemFields == {"itemid", "shortname", "token"}
RecipeFields == {"ingredients", "time", "amountToCreate"}

\* the text that has just the fields of a set, each with a value: itemid
\* 100, shortname wood, token Wood after the displayName header (which is
\* there with or without its token), one ingredient, time 30 and amount 1
FieldLines(fields) ==
    (IF "itemid" \in fields THEN <<Line("itemid", Digits(100))>> ELSE <<>>)
    \o (IF "shortname" \in fields
        THEN <<Line("shortname", CodeUnits["wood"])>> ELSE <<>>)
    \o <<Line("displayName", <<>>)>>
    \o (IF "token" \in fields THEN <<Line("token", CodeUnits["Wood"])>> ELSE <<>>)
    \o (IF "ingredients" \in fields
        THEN <<Line("ingredients", <<>>),
               Line("itemDef", Digits(55)), Line("amount", Digits(2))>>
        ELSE <<>>)
    \o (IF "time" \in fields THEN <<Line("time", Digits(30))>> ELSE <<>>)
    \o (IF "amountToCreate" \in fields
        THEN <<Line("amountToCreate", Digits(1))>> ELSE <<>>)

\* all fields, one group with one field missing beside the other group
\* complete or absent, and each group alone or absent
PresenceSets ==
    {ItemFields \cup RecipeFields, ItemFields, RecipeFields, {}}
    \cup {(ItemFields \ {f}) \cup r : f \in ItemFields, r \in {{}, RecipeFields}}
    \cup {i \cup (RecipeFields \ {f}) : f \in RecipeFields, i \in {{}, ItemFields}}

\* texts in which a numeric field holds text that is no number: the itemid,
\* the category (behind a numeral), the time, an ingredient's amount
MalformedFiles ==
    {File("badid", <<Line("itemid", CodeUnits["abc"])>> \o NameLines("wood")),
     File("badcategory",
          <<Line("itemid", Digits(150))>> \o NameLines("workbench")
          \o <<Line("category", Digits(12) \o CodeUnits["abc"])>>),
     File("badtime",
          <<Line("ingredients", <<>>), Line("time", CodeUnits["abc"]),
            Line("amountToCreate", Digits(1))>>),
     File("badamount",
          <<Line("ingredients", <<>>), Line("itemDef", Digits(55)),
            Line("amount", CodeUnits["abc"]), Line("time", Digits(30)),
            Line("amountToCreate", Digits(1))>>)}

\* a blueprint fragment, with a token and without a category
FragmentFile ==
    File("fragment",
         <<Line("itemid", Digits(200)),
           Line("shortname", CodeUnits["basicblueprintfragment"] \o <<32>>),
           Line("displayName", <<>>), Line("token", CodeUnits["Fragment"])>>)

\* the prefabs of the runs that exercise the parser
ParsePrefabFiles ==
    {File("fields", FieldLines(fields)) : fields \in PresenceSets}
    \cup MalformedFiles
    \cup {FragmentFile, Unreadable("locked"),
          PrefabBlueprint("workbench", <<Ingredient(Num(2), Num(55))>>)}

ParseJsonFiles == {JsonData(100, "wood"), Throws}

\* the category codes of the inputs: those of the table and one outside it
CategoryCodes == DOMAIN categoryMap \cup {999}

\* the prefabs and the .json files that exercise the category table: one
\* per code, one without category, and a blueprint fragment
CategoryPrefabFiles ==
    {PrefabItem(100, Null, Num(c)) : c \in CategoryCodes}
    \cup {PrefabItem(100, Null, Null), FragmentFile}

CategoryJsonFiles ==
    {[JsonData(100, "wood") EXCEPT !.Category = Num(c)] : c \in CategoryCodes}
    \cup {[itemid |-> Num(100), shortname |-> Str("wood"), Name |-> Str("Json Name")]}

\* the prefabs and the .json files that exercise the loader's test:
\* identifiers that are negative, zero, a string, or missing, and files
\* without shortname or Name
LoaderPrefabFiles ==
    {PrefabItem(100, Num(55), Num(14)), PrefabItem(150, Null, Num(999))}

LoaderJsonFiles ==
    {JsonData(100, "wood"),
     [JsonData(150, "workbench") EXCEPT !.Category = Num(999)],
     [itemid |-> Num(0 - 200), shortname |-> Str("metal.ore"), Name |-> Str("Json Name")],
     [JsonData(200, "metal.ore") EXCEPT !.itemid = Num(0)],
     [JsonData(200, "metal.ore") EXCEPT !.itemid = Str("abc")],
     [itemid |-> Num(200), shortname |-> Str("metal.ore")],
     [itemid |-> Num(200), Name |-> Str("Json Name")],
     [shortname |-> Str("metal.ore"), Name |-> Str("Json Name")]}

\* the prefabs of the two blueprint fragments: with the shortname alone on
\* its line, any display-name token, and no category or any category
FragmentShortnames == {"basicblueprintfragment", "advancedblueprintfragment"}

FragmentFiles ==
    {File("fragment",
          <<Line("itemid", Digits(200)),
            Line("shortname", CodeUnits[s]),
            Line("displayName", <<>>), Line("token", CodeUnits[t])>>
          \o (IF c = Null THEN <<>> ELSE <<Line("category", Digits(c.v))>>)) :
        s \in FragmentShortnames, t \in {"Fragment", "Wood"},
        c \in {Null, Num(0), Num(14), Num(999)}}

\* the lines between the header of a recipe and its time: ingredient blocks
\* of fileID 55 or 66 or without fileID, and amount fields
PairingLines ==
    {Line("itemDef", Digits(55)), Line("itemDef", Digits(66)),
     Line("itemDef", <<>>),
     Line("amount", Digits(2)), Line("amount", Digits(3))}

\* the recipes of at most MaxBlockLines such lines, in any order
PairingFiles ==
    {File("recipe",
          <<Line("ingredients", <<>>)>> \o body
          \o <<Line("time", Digits(30)), Line("amountToCreate", Digits(1))>>) :
        body \in BSeq(PairingLines, MaxBlockLines)}

----------------------------------------------------------------------------
(* extractRustItems                                                        *)

\* cleanup() left out of the finally block
cleanupSkipped(process) == process

\* cleanup(): if (this.assetRipperProcess) this.assetRipperProcess.kill()
cleanup(process) == IF process = "running" THEN "killed" ELSE process

\* saveToFile called on the merged list, before matchItemsWithBlueprints
SavePositionBeforeMatch == "extracted"

\* the place of the call of saveToFile in extractRustItems: after
\* matchItemsWithBlueprints has returned
SavePosition == "matched"

\* findPrefabFiles, the update monitor and the API server left aside: no
\* call, no check and no request in progress
TreeIdle == dirTree = <<>> /\ findPc = "returned" /\ foundPaths = <<>>

MonitorIdle ==
    /\ publishedBuild = 1
    /\ versionFile = 1
    /\ gameBuild = 1
    /\ datasetBuild = 1
    /\ extractionBuild = 1
    /\ monitoring = "off"
    /\ updates = <<>>

ServerIdle ==
    /\ itemsData = <<>>
    /\ serverPc = "off"
    /\ reloadPending = FALSE
    /\ imagesStats = 0
    /\ cachedZipPath = 0
    /\ cachedZipStats = 0
    /\ requests = <<>>

InitWith(PrefabResults, JsonFiles, DirExists) ==
    /\ prefabsDirExists \in DirExists
    /\ prefabFiles \in BSeq(PrefabResults, MaxPrefabFiles)
    /\ jsonFiles \in BSeq(JsonFiles, MaxJsonFiles)
    /\ pc = "start"
    /\ prefabItems = <<>>
    /\ jsonItems = <<>>
    /\ blueprints = <<>>
    /\ items = <<>>
    /\ outputFile = Null
    /\ summaryFile = Null
    /\ status = 1
    /\ assetRipperProcess = "running"
    /\ thrown = "none"
    /\ outcome = "pending"
    /\ TreeIdle
    /\ MonitorIdle
    /\ ServerIdle

Init == InitWith(MergePrefabResults, MergeJsonFiles, BOOLEAN)

\* const { items, blueprints } = await this.extractAllItems()
ExtractAllItems ==
    /\ pc = "start"
    /\ pc' = "extracted"
    /\ IF ~prefabsDirExists
       THEN /\ status' = 4
            /\ prefabItems' = <<>>
            /\ jsonItems' = <<>>
            /\ blueprints' = <<>>
            /\ items' = <<>>
       ELSE /\ prefabItems' = CollectItems(prefabFiles)
            /\ blueprints' = CollectBlueprints(prefabFiles)
            /\ jsonItems' = extractJsonItems(jsonFiles)
            /\ items' = MergeItems(prefabItems', jsonItems')
            /\ status' = 5
    /\ UNCHANGED <<tree, monitor, server, inputs, disk, run>>

\* if (items.length === 0) return, and the finally block
ReturnNoItems ==
    /\ pc = "extracted"
    /\ Len(items) = 0
    /\ pc' = "done"
    /\ outcome' = "returned"
    /\ assetRipperProcess' = cleanup(assetRipperProcess)
    /\ UNCHANGED <<tree, monitor, server, inputs, extracted, items, disk, status, thrown>>

\* const itemsWithBlueprints = this.matchItemsWithBlueprints(items, blueprints)
MatchItemsWithBlueprints ==
    /\ pc = "extracted"
    /\ Len(items) # 0
    /\ items' = matchItemsWithBlueprints(items, blueprints)
    /\ pc' = "matched"
    /\ UNCHANGED <<tree, monitor, server, inputs, extracted, disk, status, run>>

\* this.saveToFile(itemsWithBlueprints) with both writes done, the rest of
\* the try block, which only logs, and the finally block
SaveToFile ==
    /\ pc = SavePosition
    /\ outputFile' = Stringify(items)
    /\ summaryFile' = Summary(items)
    /\ pc' = "done"
    /\ outcome' = "returned"
    /\ assetRipperProcess' = cleanup(assetRipperProcess)
    /\ UNCHANGED <<tree, monitor, server, inputs, extracted, items, status, thrown>>

Next ==
    \/ ExtractAllItems
    \/ ReturnNoItems
    \/ MatchItemsWithBlueprints
    \/ SaveToFile

Spec == Init /\ [][Next]_vars

(* The resolver applied to its own output.                                 *)

InitResolve == InitWith(ResolvePrefabResults, ResolveJsonFiles, {TRUE})

\* matchItemsWithBlueprints(itemsWithBlueprints, blueprints)
Rematch ==
    /\ pc = "matched"
    /\ items' = matchItemsWithBlueprints(items, blueprints)
    /\ pc' = "rematched"
    /\ UNCHANGED <<tree, monitor, server, inputs, extracted, disk, status, run>>

NextResolve ==
    \/ ExtractAllItems
    \/ ReturnNoItems
    \/ MatchItemsWithBlueprints
    \/ Rematch

SpecResolve == InitResolve /\ [][NextResolve]_vars

(* The whole of extractRustItems, from its first call, with the calls     *)
(* that can throw, over an output file of an earlier run.                  *)

RunPrefabFiles ==
    {PrefabItem(100, Num(55), Num(3)),
     PrefabBlueprint("wood", <<Ingredient(Num(2), Num(55))>>)}

RunJsonFiles == {JsonData(150, "workbench")}

\* the dataset an earlier run has written
PreviousItems == <<JsonItem(JsonData(200, "metal.ore"))>>

\* a file whose write threw after the file was opened: it holds a part of
\* the data, or nothing
Truncated == [t |-> "truncated"]

InitRun ==
    /\ prefabsDirExists \in BOOLEAN
    /\ prefabFiles \in BSeq(RunPrefabFiles, MaxPrefabFiles)
    /\ jsonFiles \in BSeq(RunJsonFiles, MaxJsonFiles)
    /\ pc = "setup"
    /\ prefabItems = <<>>
    /\ jsonItems = <<>>
    /\ blueprints = <<>>
    /\ items = <<>>
    /\ \/ outputFile = Null /\ summaryFile = Null
       \/ /\ outputFile = Stringify(PreviousItems)
          /\ summaryFile = Summary(PreviousItems)
    /\ status = 1
    /\ assetRipperProcess = "none"
    /\ thrown = "none"
    /\ outcome = "pending"
    /\ TreeIdle
    /\ MonitorIdle
    /\ ServerIdle

\* a call of the try block throws: catch logs and throws the error again,
\* after the finally block has run cleanup()
Throw(call) ==
    /\ pc' = "done"
    /\ thrown' = call
    /\ outcome' = "threw"
    /\ assetRipperProcess' = cleanup(assetRipperProcess)

\* this.createDirectories(); await this.startAssetRipper(): an instance
\* that answers is used as it is, otherwise one is spawned, unless
\* checkAssetRipperSetup throws
StartAssetRipper ==
    /\ pc = "setup"
    /\ \E result \in {"answers", "spawned", "throws"} :
          IF result = "throws"
          THEN Throw("startAssetRipper")
          ELSE /\ pc' = "started"
               /\ assetRipperProcess' =
                      IF result = "spawned" THEN "running" ELSE assetRipperProcess
               /\ UNCHANGED <<thrown, outcome>>
    /\ UNCHANGED <<tree, monitor, server, inputs, extracted, items, disk, status>>

\* await this.waitForAssetRipper(): ready within 60 attempts, or throws
WaitForAssetRipper ==
    /\ pc = "started"
    /\ \E ready \in BOOLEAN :
          IF ready
          THEN pc' = "ready" /\ UNCHANGED run
          ELSE Throw("waitForAssetRipper")
    /\ UNCHANGED <<tree, monitor, server, inputs, extracted, items, disk, status>>

\* const bundlePath = this.checkBundleFile(); await this.loadBundle(...):
\* either throws when the bundle is missing, the second also when the
\* request fails
LoadBundle ==
    /\ pc = "ready"
    /\ \E loaded \in BOOLEAN :
          IF loaded
          THEN pc' = "start" /\ UNCHANGED run
          ELSE Throw("loadBundle")
    /\ UNCHANGED <<tree, monitor, server, inputs, extracted, items, disk, status>>

\* extractAllItems sets status 4, and its exportProject throws
ExportProjectFails ==
    /\ pc = "start"
    /\ status' = 4
    /\ Throw("exportProject")
    /\ UNCHANGED <<tree, monitor, server, inputs, extracted, items, disk>>

\* this.saveToFile(itemsWithBlueprints) throws: at the first write (or at
\* mkdirSync before it), which leaves the output file as it was or
\* truncated, or at the second write, after the output file was written
SaveToFileFails ==
    /\ pc = SavePosition
    /\ \/ /\ outputFile' \in {outputFile, Truncated}
          /\ summaryFile' = summaryFile
       \/ /\ outputFile' = Stringify(items)
          /\ summaryFile' \in {summaryFile, Truncated}
    /\ Throw("saveToFile")
    /\ UNCHANGED <<tree, monitor, server, inputs, extracted, items, status>>

NextRun ==
    \/ StartAssetRipper
    \/ WaitForAssetRipper
    \/ LoadBundle
    \/ ExportProjectFails
    \/ ExtractAllItems
    \/ ReturnNoItems
    \/ MatchItemsWithBlueprints
    \/ SaveToFile
    \/ SaveToFileFails

SpecRun == InitRun /\ [][NextRun]_vars

(* The same run on the prefabs that exercise the parser, on the .json      *)
(* files that exercise the loader, and on those of the category table.     *)

InitParse == InitWith(ParsePrefabFiles, ParseJsonFiles, {TRUE})

SpecParse == InitParse /\ [][Next]_vars

InitLoader == InitWith(LoaderPrefabFiles, LoaderJsonFiles, {TRUE})

SpecLoader == InitLoader /\ [][Next]_vars

\* the run on one prefab, a blueprint fragment or a recipe, and no .json file
InitPrefabText ==
    /\ prefabsDirExists = TRUE
    /\ prefabFiles \in {<<file>> : file \in FragmentFiles \cup PairingFiles}
    /\ jsonFiles = <<>>
    /\ pc = "start"
    /\ prefabItems = <<>>
    /\ jsonItems = <<>>
    /\ blueprints = <<>>
    /\ items = <<>>
    /\ outputFile = Null
    /\ summaryFile = Null
    /\ status = 1
    /\ assetRipperProcess = "running"
    /\ thrown = "none"
    /\ outcome = "pending"
    /\ TreeIdle
    /\ MonitorIdle
    /\ ServerIdle

SpecPrefabText == InitPrefabText /\ [][Next]_vars

\* at most MaxCategoryFiles files of either kind, over every category code
InitCategory ==
    /\ InitWith(CategoryPrefabFiles, CategoryJsonFiles, {TRUE})
    /\ Len(prefabFiles) <= MaxCategoryFiles
    /\ Len(jsonFiles) <= MaxCategoryFiles

SpecCategory == InitCategory /\ [][Next]_vars

----------------------------------------------------------------------------
(* findPrefabFiles on the directory trees of at most MaxDepth levels of    *)
(* subdirectories.                                                         *)

\* no extraction run: the run's variables at rest
ExtractionIdle ==
    /\ prefabsDirExists = FALSE
    /\ prefabFiles = <<>>
    /\ jsonFiles = <<>>
    /\ pc = "off"
    /\ prefabItems = <<>>
    /\ jsonItems = <<>>
    /\ blueprints = <<>>
    /\ items = <<>>
    /\ status = 1
    /\ assetRipperProcess = "none"
    /\ thrown = "none"
    /\ outcome = "pending"

\* the names of the entries: a prefab, the .meta file Unity keeps beside
\* it, and a directory
FileNames == {"a.prefab", "b.prefab.meta"}
DirNames == {"sub.prefab"}

\* the orders in which a directory lists some of the names, each at most
\* once
Orderings ==
    {o \in BSeq(FileNames \cup DirNames, Cardinality(FileNames \cup DirNames)) :
        \A i, j \in 1..Len(o) : i # j => o[i] # o[j]}

\* the directory that lists the names of o, its subdirectory holding sub
Listing(o, sub) ==
    [i \in 1..Len(o) |->
        IF o[i] \in DirNames THEN DirEntry(o[i], sub) ELSE FileEntry(o[i])]

\* the directories with at most depth levels of subdirectories below them
RECURSIVE Listings(_)
Listings(depth) ==
    {Listing(o, <<>>) : o \in BSeq(FileNames, Cardinality(FileNames)) \cap Orderings}
    \cup (IF depth = 0 THEN {}
          ELSE {Listing(o, sub) :
                   o \in Orderings \ BSeq(FileNames, Cardinality(FileNames)),
                   sub \in Listings(depth - 1)})

InitTree ==
    /\ dirTree \in {[exists |-> FALSE, entries |-> <<>>]}
                   \cup {[exists |-> TRUE, entries |-> l] : l \in Listings(MaxDepth)}
    /\ findPc = "call"
    /\ foundPaths = <<>>
    /\ ExtractionIdle
    /\ outputFile = Null
    /\ summaryFile = Null
    /\ MonitorIdle
    /\ ServerIdle

\* const prefabFiles = this.findPrefabFiles(prefabsPath)
FindPrefabFiles ==
    /\ findPc = "call"
    /\ foundPaths' = findPrefabFiles(dirTree)
    /\ findPc' = "returned"
    /\ UNCHANGED <<dirTree, extraction, disk, monitor, server>>

SpecTree == InitTree /\ [][FindPrefabFiles]_vars

----------------------------------------------------------------------------
(* startContinuousMonitoring of steamcmd-manager.js, with SteamCMD set up. *)
(* A build id is a number from 1 to MaxBuild, 0 stands for none.  At most  *)
(* MaxUpdates calls of performUpdateIfNeeded are in progress at a time.    *)

Slots == 1..MaxUpdates

\* the game of build 1 downloaded and extracted, or nothing yet
InitMonitor ==
    /\ publishedBuild = 1
    /\ versionFile \in {0, 1}
    /\ gameBuild = versionFile
    /\ datasetBuild = versionFile
    /\ extractionBuild = versionFile
    /\ monitoring = "initial"
    /\ updates = [i \in Slots |-> IF i = 1 THEN "check" ELSE "idle"]
    /\ ExtractionIdle
    /\ outputFile = Null
    /\ summaryFile = Null
    /\ TreeIdle
    /\ ServerIdle

\* Facepunch publishes a new build
Publish ==
    /\ publishedBuild < MaxBuild
    /\ publishedBuild' = publishedBuild + 1
    /\ UNCHANGED <<versionFile, gameBuild, datasetBuild, extractionBuild, monitoring, updates>>
    /\ UNCHANGED <<extraction, disk, tree, server>>

\* await this.performUpdateIfNeeded() has returned: setInterval(...)
SetInterval ==
    /\ monitoring = "initial"
    /\ updates[1] = "idle"
    /\ monitoring' = "interval"
    /\ UNCHANGED <<publishedBuild, versionFile, gameBuild, datasetBuild, extractionBuild, updates>>
    /\ UNCHANGED <<extraction, disk, tree, server>>

\* the interval elapses: the callback calls performUpdateIfNeeded, whether
\* or not an earlier call has returned
Tick ==
    /\ monitoring = "interval"
    /\ \E i \in Slots :
          /\ updates[i] = "idle"
          /\ updates' = [updates EXCEPT ![i] = "check"]
    /\ UNCHANGED <<publishedBuild, versionFile, gameBuild, datasetBuild, extractionBuild, monitoring>>
    /\ UNCHANGED <<extraction, disk, tree, server>>

\* checkGameVersion resolves: with the build id parsed it answers false
\* when version.txt holds that id, and otherwise saves the id to
\* version.txt and answers true; a check that fails answers true
CheckGameVersion(i) ==
    /\ updates[i] = "check"
    /\ \E parsed \in BOOLEAN :
          LET needsUpdate == ~parsed \/ versionFile # publishedBuild
          IN  /\ versionFile' = IF parsed THEN publishedBuild ELSE versionFile
              /\ updates' = [updates EXCEPT
                                ![i] = IF needsUpdate THEN "download" ELSE "idle"]
    /\ UNCHANGED <<publishedBuild, gameBuild, datasetBuild, extractionBuild, monitoring>>
    /\ UNCHANGED <<extraction, disk, tree, server>>

\* await this.downloadRust() returns: the game files are those of the
\* published build; getCurrentBuildId().then(saveGameVersion) may save it
DownloadSucceeds(i) ==
    /\ updates[i] = "download"
    /\ gameBuild' = publishedBuild
    /\ versionFile' \in {versionFile, publishedBuild}
    /\ updates' = [updates EXCEPT ![i] = "extract"]
    /\ UNCHANGED <<publishedBuild, datasetBuild, extractionBuild, monitoring>>
    /\ UNCHANGED <<extraction, disk, tree, server>>

\* await this.downloadRust() throws: the catch of performUpdateIfNeeded
\* logs the error and the call returns
DownloadFails(i) ==
    /\ updates[i] = "download"
    /\ updates' = [updates EXCEPT ![i] = "idle"]
    /\ UNCHANGED <<publishedBuild, versionFile, gameBuild, datasetBuild, extractionBuild, monitoring>>
    /\ UNCHANGED <<extraction, disk, tree, server>>

\* the bundle is copied and await manager.extractRustItems() returns, with
\* the dataset written, or throws, which the catch logs
ExtractRustItems(i) ==
    /\ updates[i] = "extract"
    /\ extractionBuild' = gameBuild
    /\ \E written \in BOOLEAN :
          datasetBuild' = IF written THEN gameBuild ELSE datasetBuild
    /\ updates' = [updates EXCEPT ![i] = "idle"]
    /\ UNCHANGED <<publishedBuild, versionFile, gameBuild, monitoring>>
    /\ UNCHANGED <<extraction, disk, tree, server>>

NextMonitor ==
    \/ Publish
    \/ SetInterval
    \/ Tick
    \/ \E i \in Slots : CheckGameVersion(i)
    \/ \E i \in Slots : DownloadSucceeds(i)
    \/ \E i \in Slots : DownloadFails(i)
    \/ \E i \in Slots : ExtractRustItems(i)

SpecMonitor == InitMonitor /\ [][NextMonitor]_vars

\* the timer keeps firing, every check, download and extraction ends, and
\* a download that is attempted again and again succeeds in the end
SpecMonitorFair ==
    /\ SpecMonitor
    /\ WF_vars(SetInterval)
    /\ WF_vars(Tick)
    /\ \A i \in Slots :
          /\ WF_vars(CheckGameVersion(i))
          /\ WF_vars(DownloadSucceeds(i) \/ DownloadFails(i))
          /\ WF_vars(ExtractRustItems(i))
    /\ SF_vars(\E i \in Slots : DownloadSucceeds(i))

----------------------------------------------------------------------------
(* The API server (api-server.js): the item list it loads from            *)
(* rust_items.json and reloads when the file changes, and the ZIP cache of *)
(* GET /api/images/download-all.  The images directory holds images; what  *)
(* getImagesDirectoryStats() returns is a number from 1 to MaxImageStats,  *)
(* which also names the ZIP file built from those images.  At most         *)
(* MaxRequests requests are in progress at a time.                         *)

\* the datasets the extractor writes
Datasets == {<<JsonItem(JsonData(100, "wood"))>>, PreviousItems}

\* loadItemsData(): the list that itemsData holds after the call, for the
\* file as it is and for whether readFileSync returns its text; a file
\* that does not exist leaves the list, a text that is no JSON empties it
loadItemsData(file, readable, current) ==
    IF file = Null THEN current
    ELSE IF readable /\ file # Truncated THEN file.v
    ELSE <<>>

IdleRequest == [pc |-> "idle", zipPath |-> 0]

\* shouldRebuildZip()
shouldRebuildZip ==
    \/ cachedZipPath = 0
    \/ cachedZipStats = 0
    \/ imagesStats # cachedZipStats

InitServer ==
    /\ outputFile \in {Null, Truncated} \cup {Stringify(d) : d \in Datasets}
    /\ summaryFile = Null
    /\ itemsData = <<>>
    /\ serverPc = "starting"
    /\ reloadPending = FALSE
    /\ imagesStats = 1
    /\ cachedZipPath = 0
    /\ cachedZipStats = 0
    /\ requests = [r \in 1..MaxRequests |-> IdleRequest]
    /\ ExtractionIdle
    /\ TreeIdle
    /\ MonitorIdle

\* the initial loadItemsData(), after which the server watches the file
\* and listens
InitialLoad ==
    /\ serverPc = "starting"
    /\ \E readable \in BOOLEAN :
          itemsData' = loadItemsData(outputFile, readable, itemsData)
    /\ serverPc' = "serving"
    /\ UNCHANGED <<reloadPending, imagesStats, cachedZipPath, cachedZipStats, requests, extraction, disk, tree, monitor>>

\* the extractor writes rust_items.json, wholly or, seen mid-write or after
\* a write that failed, in part; the watcher or the 30 s check schedules a
\* reload
WriteDataset ==
    /\ outputFile' \in ({Truncated} \cup {Stringify(d) : d \in Datasets}) \ {outputFile}
    /\ reloadPending' = (serverPc = "serving")
    /\ UNCHANGED <<summaryFile, itemsData, serverPc, imagesStats, cachedZipPath, cachedZipStats, requests, extraction, tree, monitor>>

\* processed-data is removed: no change event, and statSync throws in the
\* 30 s check
RemoveDataset ==
    /\ outputFile # Null
    /\ outputFile' = Null
    /\ UNCHANGED <<summaryFile, server, extraction, tree, monitor>>

\* the scheduled loadItemsData() runs
Reload ==
    /\ serverPc = "serving"
    /\ reloadPending
    /\ reloadPending' = FALSE
    /\ \E readable \in BOOLEAN :
          itemsData' = loadItemsData(outputFile, readable, itemsData)
    /\ UNCHANGED <<serverPc, imagesStats, cachedZipPath, cachedZipStats, requests, extraction, disk, tree, monitor>>

\* the images of the game data change
ImagesChange ==
    /\ imagesStats < MaxImageStats
    /\ imagesStats' = imagesStats + 1
    /\ UNCHANGED <<cachedZipPath, cachedZipStats, requests>>
    /\ UNCHANGED <<itemsData, serverPc, reloadPending, extraction, disk, tree, monitor>>

\* GET /api/images/download-all up to its first await, or to the stream:
\* with a stale cache buildZipArchive() opens the ZIP file named after the
\* current stats for writing, otherwise the cached file is streamed
Arrive(r) ==
    /\ serverPc = "serving"
    /\ requests[r].pc = "idle"
    /\ requests' = [requests EXCEPT ![r] =
                       IF shouldRebuildZip
                       THEN [pc |-> "building", zipPath |-> imagesStats]
                       ELSE [pc |-> "streaming", zipPath |-> cachedZipPath]]
    /\ UNCHANGED <<imagesStats, cachedZipPath, cachedZipStats>>
    /\ UNCHANGED <<itemsData, serverPc, reloadPending, extraction, disk, tree, monitor>>

\* the archive ends: cachedZipPath = await cachedZipPromise, cachedZipStats
\* = getImagesDirectoryStats(), and the cached file is streamed
BuildEnds(r) ==
    /\ requests[r].pc = "building"
    /\ cachedZipPath' = requests[r].zipPath
    /\ cachedZipStats' = imagesStats
    /\ requests' = [requests EXCEPT ![r] =
                       [pc |-> "streaming", zipPath |-> cachedZipPath']]
    /\ UNCHANGED imagesStats
    /\ UNCHANGED <<itemsData, serverPc, reloadPending, extraction, disk, tree, monitor>>

\* the archive fails: the route answers 500
BuildFails(r) ==
    /\ requests[r].pc = "building"
    /\ requests' = [requests EXCEPT ![r] = IdleRequest]
    /\ UNCHANGED <<imagesStats, cachedZipPath, cachedZipStats>>
    /\ UNCHANGED <<itemsData, serverPc, reloadPending, extraction, disk, tree, monitor>>

\* the stream of the cached file ends
StreamEnds(r) ==
    /\ requests[r].pc = "streaming"
    /\ requests' = [requests EXCEPT ![r] = IdleRequest]
    /\ UNCHANGED <<imagesStats, cachedZipPath, cachedZipStats>>
    /\ UNCHANGED <<itemsData, serverPc, reloadPending, extraction, disk, tree, monitor>>

NextServer ==
    \/ InitialLoad
    \/ WriteDataset
    \/ RemoveDataset
    \/ Reload
    \/ ImagesChange
    \/ \E r \in 1..MaxRequests : Arrive(r)
    \/ \E r \in 1..MaxRequests : BuildEnds(r)
    \/ \E r \in 1..MaxRequests : BuildFails(r)
    \/ \E r \in 1..MaxRequests : StreamEnds(r)

SpecServer == InitServer /\ [][NextServer]_vars

----------------------------------------------------------------------------
(* The merge of extractAllItems (claims C1 to C4).                         *)

ItemIds(list) == {list[i].itemid : i \in 1..Len(list)}

\* the merged list has just been built from the two sources
Merged == pc = "extracted" /\ prefabsDirExists

\* C1: the merged list built in extractAllItems contains every itemid of the
\* description-derived list and of the JSON-derived list exactly once, so
\* its length is the number of distinct itemids of the two lists together,
\* also when one list carries an itemid more than once.
C1_MergeTotalAndDeduplicating ==
    Merged =>
        LET ids == ItemIds(prefabItems) \cup ItemIds(jsonItems)
        IN  /\ ItemIds(items) = ids
            /\ Len(items) = Cardinality(ids)
            /\ \A i, j \in 1..Len(items) :
                   i # j => items[i].itemid # items[j].itemid

\* C2: for an item present in both sources whose JSON files carry no value
\* for volume or stackable, the merged record's volume or stackable is the
\* description-derived value.
C2_AbsentJsonFieldKeepsDescriptionValue ==
    Merged =>
        \A i \in 1..Len(prefabItems) : \A f \in {"volume", "stackable"} :
            LET files == {k \in 1..Len(jsonFiles) :
                            /\ JsonAccepted(jsonFiles[k])
                            /\ jsonFiles[k].itemid = prefabItems[i].itemid}
            IN  (/\ files # {}
                 /\ \A k \in files : f \notin DOMAIN jsonFiles[k])
                => items[i][f] = prefabItems[i][f]

\* the JSON record an itemid is merged with: the last one of the JSON list
\* that carries it
IsJsonCounterpart(k, item) ==
    /\ k \in 1..Len(jsonItems)
    /\ jsonItems[k].itemid = item.itemid
    /\ \A l \in (k + 1)..Len(jsonItems) : jsonItems[l].itemid # item.itemid

\* C3: for an item present in both sources, every field the JSON record
\* carries has the JSON value in the merged record (JSON volume 5 over
\* description volume 10 gives 5), and every field only the
\* description-derived record has (pathId, sourceFile, ...) is retained.
C3_JsonTakesPrecedence ==
    Merged =>
        \A i \in 1..Len(prefabItems) : \A k \in 1..Len(jsonItems) :
            IsJsonCounterpart(k, prefabItems[i]) =>
                /\ \A f \in DOMAIN jsonItems[k] :
                       Get(items[i], f) = jsonItems[k][f]
                /\ \A f \in DOMAIN prefabItems[i] \ DOMAIN jsonItems[k] :
                       Get(items[i], f) = prefabItems[i][f]
                /\ {"pathId", "sourceFile"} \subseteq DOMAIN items[i]

\* a description record of volume 10 merged with a JSON record of volume 5
C3_Witness ==
    /\ Merged
    /\ \E i \in 1..Len(prefabItems) : \E k \in 1..Len(jsonFiles) :
          /\ jsonFiles[k].itemid = prefabItems[i].itemid
          /\ Get(jsonFiles[k], "volume") = Num(5)
          /\ prefabItems[i].volume = Num(10)
          /\ items[i].volume = Num(5)
          /\ items[i].pathId = Num(55)

HasJsonCounterpart(item) == item.itemid \in ItemIds(jsonItems)
HasNoPrefabCounterpart(item) == item.itemid \notin ItemIds(prefabItems)

\* C4: a description-derived record with no JSON counterpart is in the
\* merged list, at its place, with every field unchanged; the JSON records
\* with no description-derived counterpart follow all description-derived
\* records, in their order, with every field unchanged.
C4_UnmatchedRecordsUntouched ==
    Merged =>
        /\ Len(items) >= Len(prefabItems)
        /\ \A i \in 1..Len(prefabItems) :
               ~HasJsonCounterpart(prefabItems[i]) => items[i] = prefabItems[i]
        /\ SubSeq(items, Len(prefabItems) + 1, Len(items))
               = SelectSeq(jsonItems, HasNoPrefabCounterpart)

\* an unmatched description record, an unmatched JSON record and a merged
\* record in one list
C4_Witness ==
    /\ Merged
    /\ \E i \in 1..Len(prefabItems) : ~HasJsonCounterpart(prefabItems[i])
    /\ \E i \in 1..Len(prefabItems) : HasJsonCounterpart(prefabItems[i])
    /\ \E k \in 1..Len(jsonItems) : HasNoPrefabCounterpart(jsonItems[k])
    /\ Len(items) = 3

----------------------------------------------------------------------------
(* The final dataset (claims C5, C10).                                     *)

\* saveToFile has written the dataset of this run
Saved == pc = "done" /\ outputFile # Null

\* C5: in the dataset written by saveToFile no two records share a
\* shortname and no two share an itemid.
C5_DatasetKeysUnique ==
    Saved =>
        LET data == outputFile.v
        IN  \A i, j \in 1..Len(data) :
                i # j => /\ data[i].shortname # data[j].shortname
                         /\ data[i].itemid # data[j].itemid

\* C10: every record of the dataset carries an integer or null category
\* code in category and the name the table gives that code in categoryName,
\* so that GET /api/items?category=N returns exactly the records whose
\* category code is N, those read from a JSON file of Category N included.
C10_CategoryCodeInCategory ==
    Saved =>
        LET data == outputFile.v
        IN  /\ \A i \in 1..Len(data) :
                  /\ Get(data[i], "category").t \in {"number", "null"}
                  /\ "categoryName" \in DOMAIN data[i]
                  /\ Get(data[i], "category").t = "number" =>
                         data[i].categoryName
                             = Or(CategoryLookup(data[i].category), Str("Unknown"))
            /\ \A n \in CategoryCodes : \A i \in 1..Len(data) :
                  (\E k \in 1..Len(jsonFiles) :
                      /\ JsonAccepted(jsonFiles[k])
                      /\ jsonFiles[k].itemid = data[i].itemid
                      /\ Get(jsonFiles[k], "Category") = Num(n))
                  => \E j \in 1..Len(FilterByCategory(data, n)) :
                         FilterByCategory(data, n)[j] = data[i]

----------------------------------------------------------------------------
(* matchItemsWithBlueprints (claims C6 to C9).                             *)

\* the resolver has been applied to the merged list
Resolved == pc \in {"matched", "rematched"}

\* the recipe an item is matched with: the last one of the recipe list that
\* carries the item's shortname
IsRecipeOf(b, item) ==
    /\ b \in 1..Len(blueprints)
    /\ blueprints[b].shortname = Get(item, "shortname")
    /\ \A c \in (b + 1)..Len(blueprints) :
           blueprints[c].shortname # Get(item, "shortname")

HasRecipe(item) == \E b \in 1..Len(blueprints) : IsRecipeOf(b, item)

PathIds(list) == {Get(list[i], "pathId") : i \in 1..Len(list)}

\* C6: for every item with a matching recipe, the item's ingredients after
\* matchItemsWithBlueprints have the length and the order of the recipe's
\* ingredients, each entry with the recipe's amount and m_PathID; an entry
\* whose m_PathID is no item's pathId has no shortname and no displayName.
C6_IngredientsNeitherDroppedNorInvented ==
    Resolved =>
        \A i \in 1..Len(items) : \A b \in 1..Len(blueprints) :
            IsRecipeOf(b, items[i]) =>
                LET recipe == blueprints[b].ingredients.v
                    got == items[i].ingredients.v
                IN  /\ Len(got) = Len(recipe)
                    /\ \A k \in 1..Len(recipe) :
                          /\ got[k].amount = recipe[k].amount
                          /\ got[k].itemDef.m_PathID = recipe[k].itemDef.m_PathID
                          /\ recipe[k].itemDef.m_PathID \notin PathIds(items)
                             => DOMAIN got[k].itemDef = {"m_PathID"}

\* a recipe of two ingredients, the first resolved and the second not
C6_Witness ==
    /\ pc = "matched"
    /\ \E i \in 1..Len(items) :
          LET got == items[i].ingredients.v
          IN  /\ Len(got) = 2
              /\ "shortname" \in DOMAIN got[1].itemDef
              /\ got[2].itemDef.m_PathID \notin PathIds(items)
              /\ DOMAIN got[2].itemDef = {"m_PathID"}

\* C7: every item whose shortname is a recipe's shortname receives that
\* recipe's craftTime, amountToCreate and workbenchLevelRequired, and each
\* ingredient whose m_PathID is the pathId of some item of the list carries
\* the shortname and displayName of an item with that pathId.
C7_LinksByPathIdAndShortname ==
    Resolved =>
        \A i \in 1..Len(items) : \A b \in 1..Len(blueprints) :
            IsRecipeOf(b, items[i]) =>
                LET got == items[i].ingredients.v
                IN  /\ items[i].craftTime = blueprints[b].craftTime
                    /\ items[i].amountToCreate = blueprints[b].amountToCreate
                    /\ items[i].workbenchLevelRequired
                           = blueprints[b].workbenchLevelRequired
                    /\ \A k \in 1..Len(got) :
                          got[k].itemDef.m_PathID \in PathIds(items) =>
                              \E j \in 1..Len(items) :
                                  /\ Get(items[j], "pathId") = got[k].itemDef.m_PathID
                                  /\ Get(got[k].itemDef, "shortname")
                                         = items[j].shortname
                                  /\ Get(got[k].itemDef, "displayName")
                                         = items[j].displayName

CraftFields == {"ingredients", "craftTime", "amountToCreate",
                "workbenchLevelRequired"}

\* C8: applying matchItemsWithBlueprints to its own output with the same
\* recipes gives every item the ingredients, craftTime, amountToCreate and
\* workbenchLevelRequired of the first application.
C8_ResolutionIdempotent ==
    [][pc' = "rematched" =>
          /\ Len(items') = Len(items)
          /\ \A i \in 1..Len(items) : \A f \in CraftFields :
                 Get(items'[i], f) = Get(items[i], f)]_vars

\* the second application has run on a list with a resolved ingredient, an
\* unresolved one and an item without recipe
C8_Witness ==
    /\ pc = "rematched"
    /\ \E i \in 1..Len(items) :
          /\ Len(items[i].ingredients.v) = 2
          /\ "shortname" \in DOMAIN items[i].ingredients.v[1].itemDef
          /\ "shortname" \notin DOMAIN items[i].ingredients.v[2].itemDef
    /\ \E i \in 1..Len(items) : ~HasRecipe(items[i])

\* the crafting fields an item record can carry: those of the prefab
\* records and the defaults of the JSON loader
CraftingFields == CraftFields \cup {"workbenchLevel"}

\* C9: after resolution every item has a non-null ingredients sequence, and
\* every item with no matching recipe has empty ingredients and all its
\* crafting fields null, whatever it carried out of the merge.
C9_NoRecipeMeansNoCraftingData ==
    Resolved =>
        \A i \in 1..Len(items) :
            /\ Get(items[i], "ingredients").t = "array"
            /\ ~HasRecipe(items[i]) =>
                   /\ items[i].ingredients = List(<<>>)
                   /\ \A f \in (CraftingFields \ {"ingredients"})
                                   \cap DOMAIN items[i] :
                          items[i][f] = Null

----------------------------------------------------------------------------
(* parsePrefabFile (claims C11 to C13).                                    *)

\* the text has a line with the key
HasField(file, key) ==
    \E i \in 1..Len(file.content) : file.content[i].key = key

\* the value of the first line with the key
FieldText(file, key) ==
    file.content[First({i \in 1..Len(file.content) :
                          file.content[i].key = key})].value

\* the text has a token line after a displayName line
HasToken(file) ==
    \E i, j \in 1..Len(file.content) :
        /\ i < j
        /\ file.content[i].key = "displayName"
        /\ file.content[j].key = "token"

\* the value of the first token line after the first displayName line
TokenText(file) ==
    LET c == file.content
        name == First({i \in 1..Len(c) : c[i].key = "displayName"})
    IN  c[First({j \in (name + 1)..Len(c) : c[j].key = "token"})].value

\* a text that was read and has the three fields of an item
DeclaresItem(file) ==
    /\ file.readable
    /\ HasField(file, "itemid")
    /\ HasField(file, "shortname")
    /\ HasToken(file)

\* a text that was read and has the three fields of a recipe
DeclaresRecipe(file) ==
    /\ file.readable
    /\ \A key \in RecipeFields : HasField(file, key)

\* the identifiers the texts declare
DeclaredIds == {100, 150, 200}

\* C11: parsePrefabFile emits an item record for a text if and only if the
\* text has an itemid field, a shortname field and a displayName token:
\* the item list holds exactly one record per such file, in file order,
\* with the shortname of the text, the number its itemid denotes and its
\* token as display name (the two blueprint fragments, whose display name
\* is fixed, excepted), and no record for a file that lacks one of the
\* three, whether or not that file yields a recipe.
C11_ItemRecordIffThreeFields ==
    Merged =>
        LET declaring == SelectSeq(prefabFiles, DeclaresItem)
        IN  /\ Len(prefabItems) = Len(declaring)
            /\ \A k \in 1..Len(declaring) :
                  LET file == declaring[k]
                      rec == prefabItems[k]
                  IN  /\ rec.sourceFile = Str(file.name \o ".prefab")
                      /\ CodeUnits[rec.shortname.v]
                             = trim(FieldText(file, "shortname"))
                      /\ ~IsFragment(rec.shortname) =>
                             CodeUnits[rec.displayName.v] = trim(TokenText(file))
                      /\ \A n \in DeclaredIds :
                             FieldText(file, "itemid") = Digits(n)
                                 => rec.itemid = Num(n)

\* a file with the three fields has given an item, and a file that has an
\* itemid but no token has given a recipe and no item
C11_Witness ==
    /\ Merged
    /\ Len(prefabFiles) = 2
    /\ DeclaresItem(prefabFiles[1])
    /\ ~DeclaresItem(prefabFiles[2])
    /\ HasField(prefabFiles[2], "itemid")
    /\ DeclaresRecipe(prefabFiles[2])
    /\ Len(prefabItems) = 1
    /\ prefabItems[1].itemid = Num(100)
    /\ prefabItems[1].displayName = Str("Wood")
    /\ Len(blueprints) >= 1

\* C12: parsePrefabFile emits a recipe record for a text if and only if
\* the text has an ingredients marker, a time field and an amountToCreate
\* field, whether or not it has the fields of an item and whether or not
\* it has workbenchLevelRequired: the recipe list holds exactly one record
\* per such file, in file order, whose workbenchLevelRequired is null
\* exactly when the text has no such field.
C12_RecipeRecordIffThreeFields ==
    Merged =>
        LET declaring == SelectSeq(prefabFiles, DeclaresRecipe)
        IN  /\ Len(blueprints) = Len(declaring)
            /\ \A k \in 1..Len(declaring) :
                  /\ blueprints[k].sourceFile
                         = Str(declaring[k].name \o ".prefab")
                  /\ (blueprints[k].workbenchLevelRequired = Null)
                         <=> ~HasField(declaring[k], "workbenchLevelRequired")

\* one file has given both records and another, with no itemid, a recipe
\* alone
C12_Witness ==
    /\ Merged
    /\ Len(prefabFiles) = 2
    /\ DeclaresItem(prefabFiles[1]) /\ DeclaresRecipe(prefabFiles[1])
    /\ ~HasField(prefabFiles[2], "itemid") /\ DeclaresRecipe(prefabFiles[2])
    /\ Len(prefabItems) = 1
    /\ Len(blueprints) = 2
    /\ blueprints[1].itemid = Num(100)
    /\ blueprints[1].workbenchLevelRequired = Null
    /\ blueprints[2].itemid = Null
    /\ blueprints[2].workbenchLevelRequired = Num(1)

\* the fields whose text parsePrefabFile reads as a number; the value of
\* an itemDef line is the text of its fileID
NumericKeys ==
    {"itemid", "category", "stackable", "volume", "time", "amountToCreate",
     "amount", "itemDef"}

\* the text is a decimal numeral, with or without a sign
IsNumeral(text) ==
    LET t == trim(text)
        body == IF t # <<>> /\ Head(t) = 45 THEN Tail(t) ELSE t
    IN  body # <<>> /\ \A i \in 1..Len(body) : IsDigit(body[i])

\* a text that was read and has a numeric field that holds no numeral
Malformed(file) ==
    /\ file.readable
    /\ \E i \in 1..Len(file.content) :
          /\ file.content[i].key \in NumericKeys
          /\ file.content[i].value # <<>>
          /\ ~IsNumeral(file.content[i].value)

WellFormed(file) == ~Malformed(file)

\* C13: a prefab whose numeric field (itemid, category, stackable, volume,
\* time, amountToCreate, an ingredient's amount or fileID) holds text that
\* is no number contributes no record to the item list and none to the
\* recipe list, and the other files contribute theirs: the two lists are
\* those of the batch without the malformed files.
C13_MalformedNumberDropsFile ==
    Merged =>
        /\ prefabItems = CollectItems(SelectSeq(prefabFiles, WellFormed))
        /\ blueprints = CollectBlueprints(SelectSeq(prefabFiles, WellFormed))

----------------------------------------------------------------------------
(* The loops over the files (claims C14 to C16).                           *)

\* C14: a prefab whose reading throws contributes no record to the item
\* and recipe lists, a .json file whose reading or parsing throws
\* contributes none to the JSON list, and every other file of the batch
\* contributes, at its place, exactly the records it gives as a batch of
\* its own.
C14_SkipAndContinuePerFile ==
    Merged =>
        /\ prefabItems = Flatten([i \in 1..Len(prefabFiles) |->
               IF prefabFiles[i].readable
               THEN CollectItems(<<prefabFiles[i]>>) ELSE <<>>])
        /\ blueprints = Flatten([i \in 1..Len(prefabFiles) |->
               IF prefabFiles[i].readable
               THEN CollectBlueprints(<<prefabFiles[i]>>) ELSE <<>>])
        /\ jsonItems = Flatten([k \in 1..Len(jsonFiles) |->
               IF jsonFiles[k] = Throws
               THEN <<>> ELSE extractJsonItems(<<jsonFiles[k]>>)])

\* an unreadable prefab before a prefab that has given its item and its
\* recipe, and a .json file that throws before one that has given its item
C14_Witness ==
    /\ Merged
    /\ Len(prefabFiles) = 2
    /\ ~prefabFiles[1].readable
    /\ DeclaresItem(prefabFiles[2]) /\ DeclaresRecipe(prefabFiles[2])
    /\ Len(prefabItems) = 1 /\ Len(blueprints) = 1
    /\ jsonFiles = <<Throws, JsonData(100, "wood")>>
    /\ Len(jsonItems) = 1

\* a .json file that parsed and carries an identifier that is a number, a
\* shortname that is a string and a Name that is a string
WellFormedJson(file) ==
    /\ file # Throws
    /\ Get(file, "itemid").t = "number"
    /\ Get(file, "shortname").t = "string"
    /\ Get(file, "Name").t = "string"

\* C15: extractJsonItems emits a record for a .json file if and only if
\* the file carries the itemid, shortname and Name keys with well-formed
\* values, whatever the number the identifier is: the JSON list holds one
\* record per such file, in file order, with the file's three values.
C15_JsonRecordIffThreeKeys ==
    Merged =>
        LET carrying == SelectSeq(jsonFiles, WellFormedJson)
        IN  /\ Len(jsonItems) = Len(carrying)
            /\ \A k \in 1..Len(carrying) :
                  /\ jsonItems[k].itemid = carrying[k].itemid
                  /\ jsonItems[k].shortname = carrying[k].shortname
                  /\ jsonItems[k].displayName = carrying[k].Name

\* the name the table gives a code
NameOfCode(c) == IF c \in DOMAIN categoryMap THEN categoryMap[c] ELSE "Unknown"

\* C16: for every code of the table and for a code outside it, the
\* categoryName of the item record of a prefab that declares the code, and
\* the category of the record of a .json file whose Category is the code,
\* are the same name: the table's entry (14 gives Component), and Unknown
\* for the code outside the table (999).
C16_OneCategoryTable ==
    Merged =>
        LET declaring == SelectSeq(prefabFiles, DeclaresItem)
            accepted == SelectSeq(jsonFiles, JsonAccepted)
        IN  \A c \in CategoryCodes :
                /\ \A k \in 1..Len(declaring) :
                       (/\ HasField(declaring[k], "category")
                        /\ FieldText(declaring[k], "category") = Digits(c))
                       => prefabItems[k].categoryName = Str(NameOfCode(c))
                /\ \A k \in 1..Len(accepted) :
                       Get(accepted[k], "Category") = Num(c)
                       => jsonItems[k].category = Str(NameOfCode(c))

\* a prefab and a .json file of code 14 have both given Component
C16_Witness ==
    /\ Merged
    /\ Len(prefabFiles) = 1 /\ Len(jsonFiles) = 1
    /\ HasField(prefabFiles[1], "category")
    /\ FieldText(prefabFiles[1], "category") = Digits(14)
    /\ Get(jsonFiles[1], "Category") = Num(14)
    /\ prefabItems[1].categoryName = Str("Component")
    /\ jsonItems[1].category = Str("Component")

----------------------------------------------------------------------------
(* The summary of saveToFile (claim C17).                                  *)

\* C17: the summary written by saveToFile agrees with the item list:
\* totalItems is the number of items, itemsWithBlueprints and
\* itemsWithoutBlueprints add up to it, and categories holds the distinct
\* category values of the items, each once, the numbers among them in
\* ascending numeric order (3 before 10).
C17_SummaryConsistent ==
    Saved =>
        LET categories == summaryFile.categories.v
        IN  /\ summaryFile.totalItems = Num(Len(items))
            /\ summaryFile.itemsWithBlueprints.v
                   + summaryFile.itemsWithoutBlueprints.v = Len(items)
            /\ \A i \in 1..Len(items) : \E k \in 1..Len(categories) :
                   categories[k] = Get(items[i], "category")
            /\ \A k \in 1..Len(categories) : \E i \in 1..Len(items) :
                   categories[k] = Get(items[i], "category")
            /\ \A i, j \in 1..Len(categories) :
                   i < j => categories[i] # categories[j]
            /\ \A i, j \in 1..Len(categories) :
                   (/\ i < j
                    /\ categories[i].t = "number"
                    /\ categories[j].t = "number")
                   => categories[i].v < categories[j].v

----------------------------------------------------------------------------
(* The run of extractRustItems (claims C18 to C20).                        *)

\* C18: rust_items.json is written only by the step that follows the
\* merge and the resolution of the whole record set: in every step of a
\* run that changes the output file, matchItemsWithBlueprints has returned
\* and the run is at its saveToFile; so a run that stops or throws earlier
\* leaves the file of the earlier run as it was.
C18_OutputWrittenOnlyAfterResolution ==
    [][outputFile' # outputFile =>
          /\ pc = "matched"
          /\ thrown = "none"
          /\ items = matchItemsWithBlueprints(MergeItems(prefabItems, jsonItems),
                                              blueprints)]_vars

\* a run whose export threw, and a run that found no item, over the
\* dataset of an earlier run, which is still there
C18_Witness ==
    /\ pc = "done"
    /\ outputFile = Stringify(PreviousItems)
    /\ \/ thrown = "exportProject"
       \/ outcome = "returned" /\ Len(items) = 0

\* C19: a run that finds no item record at all does not complete normally:
\* extractRustItems returns to its caller only with a nonempty item list.
C19_NoItemsPropagatesFailure ==
    outcome = "returned" => Len(items) # 0

\* C20: when saveToFile throws, extractRustItems ends by throwing to its
\* caller, without a second attempt to write, and cleanup has run: the
\* AssetRipper process the run spawned is not left running.
C20_WriteFailurePropagates ==
    thrown = "saveToFile" =>
        /\ pc = "done"
        /\ outcome = "threw"
        /\ assetRipperProcess # "running"

\* saveToFile has thrown in a run that had spawned AssetRipper, which was
\* killed
C20_Witness ==
    /\ thrown = "saveToFile"
    /\ outcome = "threw"
    /\ assetRipperProcess = "killed"
    /\ outputFile = Truncated


----------------------------------------------------------------------------
(* The origin of a record (claim C21).                                     *)

\* where a record of the dataset comes from, by the lists extractAllItems
\* merged: a description file only, the JSON source only, or both
Origin(rec) ==
    IF rec.itemid \in ItemIds(prefabItems)
    THEN IF rec.itemid \in ItemIds(jsonItems) THEN "merged" ELSE "description"
    ELSE "json"

\* C21: every record of the dataset written by saveToFile carries an origin
\* tag (the source field), and records of different origin (description
\* file only, JSON source only, merged from both) carry different tags.
C21_OriginTagDistinguishes ==
    Saved =>
        LET data == outputFile.v
        IN  /\ \A i \in 1..Len(data) : "source" \in DOMAIN data[i]
            /\ \A i, j \in 1..Len(data) :
                   Origin(data[i]) # Origin(data[j])
                       => Get(data[i], "source") # Get(data[j], "source")


----------------------------------------------------------------------------
(* The blueprint fragments (claim C23).                                    *)

FragmentDisplayName(s) ==
    IF s = "basicblueprintfragment" THEN "Basic Blueprint Fragment"
    ELSE "Advanced Blueprint Fragment"

\* a text that declares an item of the shortname s
DeclaresFragment(file, s) ==
    /\ DeclaresItem(file)
    /\ trim(FieldText(file, "shortname")) = CodeUnits[s]

\* C23: for a text that declares an item of the shortname
\* basicblueprintfragment or advancedblueprintfragment the item record has
\* the display name Basic Blueprint Fragment or Advanced Blueprint
\* Fragment, the category code 14 and the category name Component, whatever
\* token and category the text declares, and also when it declares no
\* category.
C23_FragmentOverride ==
    pc # "start" =>
        \A i \in 1..Len(prefabFiles) : \A s \in FragmentShortnames :
            DeclaresFragment(prefabFiles[i], s) =>
                \E k \in 1..Len(prefabItems) :
                    /\ prefabItems[k].sourceFile = Str(prefabFiles[i].name \o ".prefab")
                    /\ prefabItems[k].shortname = Str(s)
                    /\ prefabItems[k].displayName = Str(FragmentDisplayName(s))
                    /\ prefabItems[k].category = Num(14)
                    /\ prefabItems[k].categoryName = Str("Component")

\* the advanced fragment read from a text of token Wood and category 0
C23_Witness ==
    /\ pc = "extracted"
    /\ Len(prefabItems) = 1
    /\ DeclaresFragment(prefabFiles[1], "advancedblueprintfragment")
    /\ TokenText(prefabFiles[1]) = CodeUnits["Wood"]
    /\ HasField(prefabFiles[1], "category")
    /\ FieldText(prefabFiles[1], "category") = Digits(0)
    /\ prefabItems[1].category = Num(14)
    /\ prefabItems[1].displayName = Str("Advanced Blueprint Fragment")

----------------------------------------------------------------------------
(* The ingredients of a recipe (claim C24).                                *)

\* the pairs of a text when each ingredient block that has a fileID takes
\* the first amount after its own line, and a block with no amount after it
\* is skipped
PositionalPairs(content) ==
    LET Paired(i) == /\ content[i].key = "itemDef"
                     /\ content[i].value # <<>>
                     /\ LinesWith(content, "amount", i) # {}
        paired == SelectSeq([i \in 1..Len(content) |-> i], Paired)
    IN  [k \in 1..Len(paired) |->
            Ingredient(
                parseInt(trim(content[First(LinesWith(content, "amount", paired[k]))].value)),
                parseInt(trim(content[paired[k]].value)))]

\* C24: the ingredients of a recipe record are the ingredient blocks of the
\* text in their order, blocks of the same text included, each with the
\* first amount field that follows the block's own place in the text; a
\* block followed by no amount field is left out.
C24_PairingPositional ==
    pc # "start" =>
        \A i \in 1..Len(prefabFiles) :
            DeclaresRecipe(prefabFiles[i]) =>
                \E k \in 1..Len(blueprints) :
                    /\ blueprints[k].sourceFile = Str(prefabFiles[i].name \o ".prefab")
                    /\ blueprints[k].ingredients
                           = List(PositionalPairs(prefabFiles[i].content))


----------------------------------------------------------------------------
(* The arguments of matchItemsWithBlueprints (claim C25).                  *)

\* C25: a call of matchItemsWithBlueprints leaves the item records and the
\* recipe records it was given as they were: every field and every
\* ingredient entry is the same after the call as before.  (The records of
\* the array returned are the objects of the items argument, so items'
\* holds the fields of the argument's records after the call.)
C25_ArgumentsNotModified ==
    [][MatchItemsWithBlueprints => items' = items /\ blueprints' = blueprints]_vars


----------------------------------------------------------------------------
(* The ready status (claim C27).                                           *)

\* C27: whenever the status is 5, so that GET /ready answers 200, the run
\* that set it has completed its saveToFile: the dataset file holds the
\* items of this run, and the run has neither thrown nor stopped before the
\* write.
C27_ReadyOnlyAfterSave ==
    status = 5 =>
        /\ pc = "done"
        /\ outcome = "returned"
        /\ outputFile = Stringify(items)


----------------------------------------------------------------------------
(* findPrefabFiles (claim C26).                                            *)

\* the entries of the directory at a path, the root's for the empty path;
\* the empty list when the path leads to no directory
RECURSIVE EntriesAt(_, _)
EntriesAt(entries, path) ==
    IF path = <<>> THEN entries
    ELSE LET named == {i \in 1..Len(entries) :
                          entries[i].name = Head(path) /\ entries[i].dir}
         IN  IF named = {} THEN <<>>
             ELSE EntriesAt(entries[First(named)].entries, Tail(path))

\* the place of a name in a directory's list
Position(entries, name) ==
    First({i \in 1..Len(entries) : entries[i].name = name})

\* the paths of the tree that lead to a file named a.prefab, the one name
\* of the trees that ends in .prefab
PrefabPaths ==
    {path \in BSeq(FileNames \cup DirNames, MaxDepth + 1) :
        /\ path # <<>>
        /\ LET parent == EntriesAt(dirTree.entries, SubSeq(path, 1, Len(path) - 1))
           IN  \E i \in 1..Len(parent) :
                   /\ parent[i].name = path[Len(path)]
                   /\ ~parent[i].dir
                   /\ parent[i].name = "a.prefab"}

\* p comes before q in the depth-first traversal: where the two paths part,
\* the directory lists p's entry before q's
DepthFirstBefore(p, q) ==
    \E i \in 1..Len(p) :
        /\ i <= Len(q)
        /\ SubSeq(p, 1, i - 1) = SubSeq(q, 1, i - 1)
        /\ p[i] # q[i]
        /\ LET parent == EntriesAt(dirTree.entries, SubSeq(p, 1, i - 1))
           IN  Position(parent, p[i]) < Position(parent, q[i])

\* C26: findPrefabFiles returns the paths of the files whose name ends in
\* .prefab, at any depth below the root, each once and in the order of a
\* depth-first traversal; for a root that does not exist it returns the
\* empty list.
C26_FindPrefabFiles ==
    findPc = "returned" =>
        /\ dirTree.exists =>
               /\ {foundPaths[k] : k \in 1..Len(foundPaths)} = PrefabPaths
               /\ \A k, l \in 1..Len(foundPaths) :
                      k < l => /\ foundPaths[k] # foundPaths[l]
                               /\ DepthFirstBefore(foundPaths[k], foundPaths[l])
        /\ ~dirTree.exists => foundPaths = <<>>

\* a prefab at each of three depths, found deepest first because each
\* directory lists its subdirectory before its prefab, with a .prefab.meta
\* file in the root
C26_Witness ==
    /\ findPc = "returned"
    /\ dirTree.exists
    /\ \E i \in 1..Len(dirTree.entries) : dirTree.entries[i].name = "b.prefab.meta"
    /\ foundPaths = <<<<"sub.prefab", "sub.prefab", "a.prefab">>,
                      <<"sub.prefab", "a.prefab">>,
                      <<"a.prefab">>>>


----------------------------------------------------------------------------
(* Continuous monitoring (claims C22, C29).                                *)

\* C22: whenever the published build is not the build the dataset was
\* extracted from, then, unless a newer build is published first, the
\* published build is eventually downloaded and extractRustItems is run on
\* it, in every run in which the timer keeps firing, each step ends, and a
\* download attempted again and again eventually succeeds.
C22_NewBuildEventuallyExtracted ==
    \A b \in 1..MaxBuild :
        (publishedBuild = b /\ datasetBuild # b)
            ~> (publishedBuild # b \/ extractionBuild = b)

\* C29: at most one call of performUpdateIfNeeded is in progress at any
\* time.
C29_UpdateChecksNeverOverlap ==
    Cardinality({i \in DOMAIN updates : updates[i] # "idle"}) <= 1


----------------------------------------------------------------------------
(* The API server (claims C28, C30).                                       *)

\* C28: at most one buildZipArchive is in progress at any time, and no
\* request streams a ZIP file that a build is still writing.
C28_OneZipBuildAtATime ==
    /\ Cardinality({r \in DOMAIN requests : requests[r].pc = "building"}) <= 1
    /\ \A r, q \in DOMAIN requests :
           requests[r].pc = "streaming" /\ requests[q].pc = "building"
               => requests[r].zipPath # requests[q].zipPath

\* C30: a reload either loads the list that rust_items.json holds or, when
\* the file cannot be read or parsed, leaves the list the server had.
C30_FailedReloadKeepsItems ==
    [][Reload =>
          \/ itemsData' = itemsData
          \/ outputFile # Null /\ outputFile # Truncated /\ itemsData' = outputFile.v]_vars

====
